---- MODULE Spec2Model ----
(***************************************************************************)
(* On-device translation: the model-artifact store, the downloader, the    *)
(* SMALL100 tokenizer and the translate call of TranslationSystem.         *)
(*                                                                         *)
(* Each component has its own next-state relation and specification; a     *)
(* component's actions leave the other components' variables unchanged.    *)
(***************************************************************************)
EXTENDS Integers, Sequences, FiniteSets, TLC

VARIABLES
    \* ---- ModelStorage (src/src/lib/model-storage.ts, class at line 182)
    db,            \* this.db: "null" or "open"
    initialized,   \* this.initialized
    models,        \* rows of the IndexedDB object store "models"
    connections,   \* indexedDB.open requests answered with a connection
    clock,         \* Date.now()
    calls,         \* calls suspended on an indexedDB.open request, per kind
    last,          \* the call that settled most recently
    lastPut,       \* history: bytes of the latest successful save per filename
    \* ---- ModelDownloader.downloadFile (src/unnamed/part_005, line 21)
    dlPc,          \* "idle", "fetching", "reading", "waiting", "returned", "threw"
    dlFile,        \* filename
    maxRetries,    \* maxRetries
    hasCallback,   \* onProgress was passed
    attempt,       \* attempt
    total,         \* total: the content-length header, 0 when there is none
    loaded,        \* loaded
    chunks,        \* chunks
    dlResult,      \* the resolved buffer: <<>> or <<bytes>>
    dlError,       \* the error the call rejects with
    fetches,       \* history: fetch(url) calls of this downloadFile call
    received,      \* history: the bytes the reader delivered in this attempt
    progressCalls, \* history: the onProgress(loaded, total) calls of this attempt
    lastCause,     \* history: why the latest failed attempt failed
    \* ---- ModelDownloader.downloadAllFiles (src/unnamed/part_005, line 115)
    allPc,         \* "idle", "running", "returned", "threw"
    fileIdx,       \* position of the for loop in this.files
    completedFiles,  \* completedFiles
    downloadedFiles, \* this.downloadedFiles: <<>> or <<bytes>> per filename
    allError,      \* the error downloadAllFiles rejects with
    lastOverall,   \* history: completedFiles + loaded / total of the latest onOverallProgress
                   \* call of this downloadAllFiles call, as <<numerator, denominator>>
    events,        \* history: fetches and callbacks of the running call, in order
    \* ---- SMALL100Tokenizer (src/unnamed/part_003, line 210)
    spLoaded,      \* this.spModel is not null
    initPc,        \* <<tgtLang>> of the initializeFromBuffers call awaiting spModel.load, if any
    langBase,      \* the encoderSize the language table was built with, if it was built
    encoder,       \* this.encoder: the tokens of vocab.json, the token of id i at i + 1
    bosTokenId,    \* this.bosTokenId
    eosTokenId,    \* this.eosTokenId
    padTokenId,    \* this.padTokenId
    unkTokenId,    \* this.unkTokenId
    tgtLang,       \* this._tgtLang
    curLangId,     \* this.curLangId
    prefixTokens,  \* this.prefixTokens
    suffixTokens,  \* this.suffixTokens
    tokOut,        \* history: the latest call made on the tokenizer directly
    \* ---- TranslationSystem (src/src/lib/translation-system.ts, line 14)
    variant,       \* the build holds the second copy of TranslationSystem (lines 948 on)
    isLoaded,      \* this.isLoaded
    session,       \* this.session: <<>> or <<the session>>
    tokenizer,     \* this.tokenizer: "null" or "object", the tokenizer above
    config,        \* this.config: <<>> or <<the parsed config.json>>
    cached,        \* this.storage as its callers find it: per file name the model whose
                   \* file is stored, "none" when no row has that name
    ccPc,          \* clearCache: "idle", "init", "clearAll"
    lmCall,        \* the call lmPc belongs to: "none", "loadModel", "downloadModel",
                   \* "downloadAndLoadModel"
    lmPc,          \* the await the call is at: "idle", "init", "check", "dlInit",
                   \* "download", "save", "reread", "session", "tokenizer", and in
                   \* downloadAndLoadModel itself "dalInit", "dalCheck", "dalDownload",
                   \* "dalSave"
    lmIdx,         \* position of the `for (const fileName of ...)` loop the call is in
    lmFiles,       \* loadModel: `files`, the buffers it has read
    dlFiles,       \* downloadModel: `files`, what downloadAllFiles resolved with
    lmError,       \* the error the call rejected with
    lmFetched,     \* history: the call has called downloader.downloadAllFiles
    lmSaved,       \* history: the file names the call has saved
    loads,         \* history: the number of loadModel and downloadModel calls so far
    filesToDownload, \* downloadAndLoadModel: the required files its check found missing
    cachedAtCall,  \* history: `cached` as it was when downloadAndLoadModel was called
    pendingSaves,  \* the files whose saveModel promise, made by the per-file completion
                   \* callback, has not settled
    lostSaves,     \* history: the files whose saveModel promise rejected unobserved
    smArray,       \* history: the array of the latest softmax call on float values
    smResult,      \* history: what that call returned
    trPc,          \* translate: "idle", "run", "returned", "threw"
    trText,        \* text
    sourceLang,    \* sourceLang
    targetLang,    \* targetLang
    srcLangId,     \* srcLangId
    tgtLangId,     \* tgtLangId
    inputIds,      \* input_ids[0]
    numBeams,      \* numBeams
    maxLength,     \* maxLength
    step,          \* step
    beams,         \* beams
    beamIdx,       \* position of `for (const beam of beams)`
    running,       \* the session whose run is awaited: <<>> or <<the session>>
    nextBeamsAccumulator,  \* nextBeamsAccumulator
    completedSequences,    \* completedSequences
    bestSequence,  \* bestSequence: <<>> or <<the tokens of allCandidates[0]>>
    trResult,      \* the text translate resolves with: <<>> or <<text>>
    trError,       \* the error translate rejects with
    trace          \* history: the tokenizer and model-runner calls of this translate call

storeVars == <<db, initialized, models, connections, clock, calls, last, lastPut>>

dlFrame == <<dlFile, maxRetries, hasCallback, attempt, total, loaded, chunks>>
dlOutcome == <<dlResult, dlError>>
dlHistory == <<fetches, received, progressCalls, lastCause>>
allFrame == <<allPc, fileIdx, completedFiles, downloadedFiles, allError, lastOverall>>
fetchVars == <<dlPc, dlFrame, dlOutcome, dlHistory, allFrame, events>>

tokIds == <<bosTokenId, eosTokenId, padTokenId, unkTokenId>>
tokLang == <<tgtLang, curLangId, prefixTokens, suffixTokens>>
tokVars == <<spLoaded, encoder, initPc, langBase, tokIds, tokLang, tokOut>>

trSearch == <<step, beams, beamIdx, running, nextBeamsAccumulator, completedSequences>>
trFrame == <<trPc, trText, sourceLang, targetLang, srcLangId, tgtLangId, inputIds, numBeams,
             maxLength, trSearch, bestSequence, trResult, trError, trace>>
lmFrame == <<lmCall, lmPc, lmIdx, lmFiles, dlFiles, lmError, lmFetched, lmSaved, loads>>
dalFrame == <<filesToDownload, cachedAtCall, pendingSaves, lostSaves>>
trLoaded == <<isLoaded, session, tokenizer, config>>
smVars == <<smArray, smResult>>
trSystem == <<variant, smVars, trLoaded, cached, ccPc, lmFrame, dalFrame>>
trVars == <<trSystem, trFrame>>

vars == <<storeVars, fetchVars, tokVars, trVars>>

(***************************************************************************)
(*                              Bounds                                     *)
(***************************************************************************)
MaxCalls == 2      \* store calls in flight at once
MaxClock == 1      \* latest Date.now() value
MaxBufLen == 1     \* bytes in a saved buffer
MaxChunks == 2     \* chunks a response body delivers before it ends
MaxTextLen == 2    \* characters of a text drawn freely from TextChars
NumBeams == 2      \* num_beams of config.json
MaxLength == 4     \* max_length of config.json
MaxSetId == 5      \* the largest id handed to setEosTokenId and setDecoderStartTokenId
MaxLoads == 1      \* loadModel and downloadModel calls
MaxLogits == 2     \* the length of an array softmax is given

(***************************************************************************)
(*                 Artifact Store: ModelStorage                            *)
(***************************************************************************)
Byte == {0, 1}
\* Buffers saved: up to MaxBufLen bytes, all alike
Buffers == {[i \in 1..n |-> b] : n \in 0..MaxBufLen, b \in Byte}
Filenames == {"model.onnx", "vocab.json"}
\* IndexedDB returns getAll() in ascending key order
KeyOrder == <<"model.onnx", "vocab.json">>
\* Every store method suspends the same way; init() differs in its continuation
CallKinds == {"init", "method"}
Methods == {"saveModel", "getModel", "hasModel", "getModelInfo", "getAllFilesInfo",
            "deleteModel", "clearAll"}

byteLength(buffer) == Len(buffer)

\* modelData of saveModel
modelData(filename, buffer, now) ==
    [filename |-> filename, buffer |-> buffer, timestamp |-> now,
     size |-> byteLength(buffer)]

\* A store whose rows are not keyed by filename: put appends.
storePutUnkeyed(rows, rec) == rows \cup {rec}

\* store.put on the object store created with keyPath "filename"
storePut(rows, rec) == {r \in rows : r.filename # rec.filename} \cup {rec}

storeHas(rows, filename) == \E r \in rows : r.filename = filename

\* store.get(filename): request.result (a row; callers test storeHas first)
storeGet(rows, filename) == CHOOSE r \in rows : r.filename = filename

\* store.count(filename)
storeCount(rows, filename) == Cardinality({r \in rows : r.filename = filename})

\* store.delete(filename)
storeDelete(rows, filename) == {r \in rows : r.filename # filename}

\* store.clear()
storeClear(rows) == {}

RECURSIVE RowsToSeq(_)
RowsToSeq(rows) ==
    IF rows = {} THEN <<>>
    ELSE LET r == CHOOSE x \in rows : TRUE
         IN <<r>> \o RowsToSeq(rows \ {r})

\* store.getAll(): the rows in key order
storeGetAll(rows) ==
    LET RECURSIVE ByKey(_)
        ByKey(i) ==
            IF i > Len(KeyOrder) THEN <<>>
            ELSE RowsToSeq({r \in rows : r.filename = KeyOrder[i]}) \o ByKey(i + 1)
    IN ByKey(1)

fileStatus(r) == [filename |-> r.filename, size |-> r.size, timestamp |-> r.timestamp]

\* Results of a settled call
Null == [tag |-> "null"]
Void == [tag |-> "void"]
Bool(b) == [tag |-> "bool", val |-> b]
Bytes(b) == [tag |-> "bytes", val |-> b]
Name(f) == [tag |-> "name", val |-> f]
Info(i) == [tag |-> "info", val |-> i]
InfoList(l) == [tag |-> "list", val |-> l]
Failure(msg) == [tag |-> "error", val |-> msg]

\* getModel rejecting when the key is absent
getModelRejectAbsent(rows, filename) ==
    IF storeHas(rows, filename) THEN Bytes(storeGet(rows, filename).buffer)
    ELSE Failure("Failed to retrieve")

\* getModel: request.onsuccess
getModel(rows, filename) ==
    IF storeHas(rows, filename) THEN Bytes(storeGet(rows, filename).buffer) ELSE Null

\* hasModel: request.onsuccess
hasModel(rows, filename) == Bool(storeCount(rows, filename) > 0)

\* getModelInfo: request.onsuccess
getModelInfo(rows, filename) ==
    IF storeHas(rows, filename) THEN Info(fileStatus(storeGet(rows, filename))) ELSE Null

\* getAllFilesInfo: request.onsuccess
getAllFilesInfo(rows) ==
    LET all == storeGetAll(rows)
    IN InfoList([i \in 1..Len(all) |-> fileStatus(all[i])])

\* What the request of `op` resolves with, on the rows it runs against
TxnResult(op, filename, rows) ==
    CASE op = "saveModel" -> Name(filename)
      [] op = "getModel" -> getModel(rows, filename)
      [] op = "hasModel" -> hasModel(rows, filename)
      [] op = "getModelInfo" -> getModelInfo(rows, filename)
      [] op = "getAllFilesInfo" -> getAllFilesInfo(rows)
      [] op = "deleteModel" -> Bool(TRUE)
      [] op = "clearAll" -> Bool(TRUE)
      [] OTHER -> Void

\* The rows after the request of `op`
TxnRows(op, filename, buffer, now, rows) ==
    CASE op = "saveModel" -> storePut(rows, modelData(filename, buffer, now))
      [] op = "deleteModel" -> storeDelete(rows, filename)
      [] op = "clearAll" -> storeClear(rows)
      [] OTHER -> rows

TxnError(op) ==
    CASE op = "saveModel" -> Failure("Failed to save")
      [] op = "getModel" -> Failure("Failed to retrieve")
      [] op = "hasModel" -> Failure("Failed to check")
      [] op = "getModelInfo" -> Failure("Failed to get info")
      [] op = "getAllFilesInfo" -> Failure("Failed to get all files info")
      [] op = "deleteModel" -> Failure("Failed to delete")
      [] op = "clearAll" -> Failure("Failed to clear all models")
      [] OTHER -> Failure("IndexedDB init failed")

\* What is kept of a settled call's result: its kind, and its value where the
\* value is a boolean or null (bytes, infos and lists are functions of the rows)
Summary(result) ==
    IF result.tag = "bool" THEN (IF result.val THEN "true" ELSE "false") ELSE result.tag

\* absent: the key was absent when the request ran; fault: the request ended in
\* onerror; unchanged: the rows after the request equal those before;
\* replaced: a save that replaced a row holding different bytes
NoLast == [op |-> "none", absent |-> FALSE, fault |-> FALSE,
           result |-> "void", unchanged |-> TRUE, replaced |-> FALSE]

\* The promise body of a store method: one transaction, one request, settled
\* by request.onsuccess (fault = FALSE) or request.onerror (fault = TRUE).
Transact(op, filename, buffer, fault) ==
    \E now \in clock..MaxClock :
        LET rows == IF fault THEN models
                    ELSE TxnRows(op, filename, buffer, now, models)
        IN /\ op = "saveModel" \/ now = clock
           /\ clock' = now
           /\ models' = rows
           /\ last' = [op |-> op,
                       absent |-> ~storeHas(models, filename),
                       fault |-> fault,
                       result |-> Summary(IF fault THEN TxnError(op)
                                          ELSE TxnResult(op, filename, models)),
                       unchanged |-> (rows = models),
                       replaced |-> /\ op = "saveModel" /\ ~fault
                                    /\ lastPut[filename] # <<>>
                                    /\ lastPut[filename] # <<buffer>>]
           /\ lastPut' =
                 IF fault THEN lastPut
                 ELSE CASE op = "saveModel" -> [lastPut EXCEPT ![filename] = <<buffer>>]
                        [] op = "deleteModel" -> [lastPut EXCEPT ![filename] = <<>>]
                        [] op = "clearAll" -> [f \in Filenames |-> <<>>]
                        [] OTHER -> lastPut

\* The arguments a call of `op` takes
ArgFilenames(op) ==
    IF op \in {"init", "getAllFilesInfo", "clearAll"} THEN {"none"} ELSE Filenames
ArgBuffers(op) == IF op = "saveModel" THEN Buffers ELSE {<<>>}

\* init(): `if (this.initialized && this.db) return;`
\* store methods: `if (!this.initialized || !this.db) await this.init();`
mustOpen == ~(initialized /\ db # "null")

InFlight == calls["init"] + calls["method"]

Kind(op) == IF op = "init" THEN "init" ELSE "method"

\* The continuation of init(): it returns
Initialised ==
    /\ last' = [NoLast EXCEPT !.op = "init"]
    /\ UNCHANGED <<models, clock, lastPut>>

\* A call of init() or of a store method, up to its first suspension: it runs
\* at once, or it requests indexedDB.open and waits for the answer. The body
\* of a waiting method reads its arguments when it resumes: they are drawn there.
Enter(op, filename, buffer) ==
    IF mustOpen
    THEN /\ InFlight < MaxCalls
         /\ calls' = [calls EXCEPT ![Kind(op)] = @ + 1]
         /\ UNCHANGED <<db, initialized, models, connections, clock, last, lastPut>>
         /\ UNCHANGED <<fetchVars, tokVars, trVars>>
    ELSE /\ IF op = "init"
            THEN Initialised
            ELSE \E fault \in BOOLEAN : Transact(op, filename, buffer, fault)
         /\ UNCHANGED <<db, initialized, connections, calls>>
         /\ UNCHANGED <<fetchVars, tokVars, trVars>>

Call(op) == \E f \in ArgFilenames(op), b \in ArgBuffers(op) : Enter(op, f, b)

init == Call("init")
saveModel == Call("saveModel")
getModelCall == Call("getModel")
hasModelCall == Call("hasModel")
getModelInfoCall == Call("getModelInfo")
getAllFilesInfoCall == Call("getAllFilesInfo")
deleteModel == Call("deleteModel")
clearAll == Call("clearAll")

\* request.onsuccess of indexedDB.open, then the continuation of the call
\* that made the request
OpenSuccess(kind) ==
    /\ calls[kind] > 0
    /\ calls' = [calls EXCEPT ![kind] = @ - 1]
    /\ db' = "open"
    /\ initialized' = TRUE
    /\ connections' = connections + 1
    /\ IF kind = "init"
       THEN Initialised
       ELSE \E op \in Methods :
            \E f \in ArgFilenames(op), b \in ArgBuffers(op), fault \in BOOLEAN :
                Transact(op, f, b, fault)
    /\ UNCHANGED <<fetchVars, tokVars, trVars>>

\* request.onerror of indexedDB.open: init() rejects and so does the call
OpenError(kind) ==
    /\ calls[kind] > 0
    /\ calls' = [calls EXCEPT ![kind] = @ - 1]
    /\ last' = [NoLast EXCEPT !.op = kind, !.fault = TRUE,
                               !.result = Summary(Failure("IndexedDB init failed"))]
    /\ UNCHANGED <<db, initialized, models, connections, clock, lastPut>>
    /\ UNCHANGED <<fetchVars, tokVars, trVars>>

StoreInit ==
    /\ db = "null"
    /\ initialized = FALSE
    /\ models = {}
    /\ connections = 0
    /\ clock = 0
    /\ calls = [k \in CallKinds |-> 0]
    /\ last = NoLast
    /\ lastPut = [f \in Filenames |-> <<>>]

StoreNext ==
    \/ init
    \/ saveModel
    \/ getModelCall
    \/ hasModelCall
    \/ getModelInfoCall
    \/ getAllFilesInfoCall
    \/ deleteModel
    \/ clearAll
    \/ \E kind \in CallKinds : OpenSuccess(kind)
    \/ \E kind \in CallKinds : OpenError(kind)

(***************************************************************************)
(*                     Properties of the Artifact Store                    *)
(***************************************************************************)
EntriesFor(filename) ==
    LET list == getAllFilesInfo(models).val
    IN Cardinality({i \in DOMAIN list : list[i].filename = filename})

\* C1: whatever was saved before, getModel(filename) returns the bytes of the
\* most recent successful save of that filename, and getAllFilesInfo() holds
\* exactly one entry for it.
C1_OverwriteKeepsLatest ==
    \A f \in Filenames :
        lastPut[f] # <<>> =>
            /\ getModel(models, f) = Bytes(lastPut[f][1])
            /\ EntriesFor(f) = 1

\* A filename was just saved for the second time, with different bytes.
C1_SavedTwice == last.op = "saveModel" /\ last.replaced

\* C2 (as claimed): over any interleaving of store calls and init() calls the
\* database is opened exactly once.
C2_OpenedAtMostOnce == connections <= 1

\* C3: a request for a key that is not stored, answered without a storage
\* fault, resolves with null (getModel, getModelInfo), false (hasModel) or
\* true (deleteModel), never with an error, and leaves the rows as they were.
C3_AbsentKeyIsNormal ==
    (/\ last.op \in {"getModel", "getModelInfo", "hasModel", "deleteModel"}
     /\ last.absent
     /\ ~last.fault)
    => /\ last.unchanged
       /\ last.result = CASE last.op = "getModel" -> "null"
                          [] last.op = "getModelInfo" -> "null"
                          [] last.op = "hasModel" -> "false"
                          [] last.op = "deleteModel" -> "true"

\* getModel was just answered for a key that is not stored.
C3_AbsentGet == last.op = "getModel" /\ last.absent /\ ~last.fault

(***************************************************************************)
(*                      Fetcher: ModelDownloader                           *)
(***************************************************************************)
DefaultMaxRetries == 3
\* this.files, as passed to the constructor
DownloadFiles == <<"model.onnx", "vocab.json">>
\* What one reader.read() may deliver
Chunks == {<<0>>, <<1, 1>>}
\* content-length headers: none (0), shorter than the body, longer than it
ContentLengths == {0, 1, 3}
Causes == {"transport", "http", "reader", "stream"}

NoError == [kind |-> "none", file |-> "none", attempts |-> 0, cause |-> "none"]

\* The error of the catch block once no attempts remain, without the cause
downloadErrorNoCause(file, retries, cause) ==
    [kind |-> "failed", file |-> file, attempts |-> retries, cause |-> "unknown"]

\* `Failed to download ${filename} after ${maxRetries} attempts. Last error: ...`
downloadError(file, retries, cause) ==
    [kind |-> "failed", file |-> file, attempts |-> retries, cause |-> cause]

\* `Exhausted retries for ${filename} without success or throwing an error.`
exhaustedError(file) ==
    [kind |-> "exhausted", file |-> file, attempts |-> 0, cause |-> "none"]

\* Giving up one failure too late
noAttemptsLeftLate(att, retries) == att > retries

\* `if (attempt >= maxRetries)` of the catch block
noAttemptsLeft(att, retries) == att >= retries

RECURSIVE Flatten(_)
\* the Uint8Array built from the chunks, in order
Flatten(cs) == IF cs = <<>> THEN <<>> ELSE Head(cs) \o Flatten(Tail(cs))

fetchEvent(file) == [ev |-> "fetch", file |-> file, n |-> 0]
progressEvent(file) == [ev |-> "progress", file |-> file, n |-> 0]

\* onFileComplete called with the announced length
fileCompleteAnnounced(file, buffer) == [ev |-> "complete", file |-> file, n |-> total]

\* onFileComplete(file.name, buffer.byteLength)
fileComplete(file, buffer) == [ev |-> "complete", file |-> file, n |-> byteLength(buffer)]

\* The history keeps one progress entry for a run of progress callbacks of a file
Logged(log, e) ==
    IF e.ev = "progress" /\ log # <<>> /\ log[Len(log)] = e THEN log ELSE Append(log, e)

\* The head of `while (attempt < maxRetries)` for `file`, entered with `att`
\* failed attempts, in a history `log`: the next fetch(url), or the throw after
\* the loop.
LoopHead(file, retries, att, log) ==
    IF att < retries
    THEN /\ dlPc' = "fetching"
         /\ fetches' = (IF att = 0 THEN 0 ELSE fetches) + 1
         /\ events' = Logged(log, fetchEvent(file))
         /\ dlError' = NoError
    ELSE /\ dlPc' = "threw"
         /\ fetches' = (IF att = 0 THEN 0 ELSE fetches)
         /\ events' = log
         /\ dlError' = exhaustedError(file)

\* downloadFile(filename, onProgress, maxRetries) called on its own
downloadFile(file, callback, retries) ==
    /\ dlPc = "idle" /\ allPc = "idle"
    /\ dlFile' = file
    /\ maxRetries' = retries
    /\ hasCallback' = callback
    /\ attempt' = 0
    /\ total' = 0 /\ loaded' = 0 /\ chunks' = <<>>
    /\ dlResult' = <<>>
    /\ received' = <<>> /\ progressCalls' = <<>> /\ lastCause' = "none"
    /\ LoopHead(file, retries, 0, <<>>)
    /\ UNCHANGED allFrame
    /\ UNCHANGED <<storeVars, tokVars, trVars>>

\* The caller takes the outcome of a downloadFile call it made on its own
Settle ==
    /\ dlPc \in {"returned", "threw"} /\ allPc = "idle"
    /\ dlPc' = "idle"
    /\ UNCHANGED <<dlFrame, dlOutcome, dlHistory, allFrame, events>>
    /\ UNCHANGED <<storeVars, tokVars, trVars>>

\* downloadAllFiles(onOverallProgress, onFileComplete), up to the first fetch
downloadAllFiles ==
    /\ dlPc = "idle" /\ allPc = "idle"
    /\ allPc' = "running"
    /\ fileIdx' = 1
    /\ completedFiles' = 0
    /\ allError' = NoError
    /\ dlFile' = DownloadFiles[1]
    /\ maxRetries' = DefaultMaxRetries
    /\ hasCallback' = TRUE
    /\ attempt' = 0
    /\ total' = 0 /\ loaded' = 0 /\ chunks' = <<>>
    /\ dlResult' = <<>>
    /\ received' = <<>> /\ progressCalls' = <<>> /\ lastCause' = "none"
    /\ LoopHead(DownloadFiles[1], DefaultMaxRetries, 0, <<>>)
    /\ lastOverall' = <<>>
    /\ UNCHANGED downloadedFiles
    /\ UNCHANGED <<storeVars, tokVars, trVars>>

\* The error of downloadAllFiles, were it to name the first file of the list
batchErrorOfFirst(file, retries, cause) ==
    [kind |-> "batch", file |-> DownloadFiles[1], attempts |-> retries, cause |-> cause]

\* `${file.name} のダウンロードに失敗: ${(error as Error).message}`
batchError(file, retries, cause) ==
    [kind |-> "batch", file |-> file, attempts |-> retries, cause |-> cause]

\* The catch block of downloadFile, and the catch block of downloadAllFiles
\* when the error leaves downloadFile
Catch(cause) ==
    /\ attempt' = attempt + 1
    /\ lastCause' = cause
    /\ IF noAttemptsLeft(attempt + 1, maxRetries)
       THEN /\ dlPc' = "threw"
            /\ dlError' = downloadError(dlFile, maxRetries, cause)
            /\ IF allPc = "running"
               THEN /\ allPc' = "threw"
                    /\ allError' = batchError(dlFile, maxRetries, cause)
               ELSE UNCHANGED <<allPc, allError>>
       ELSE /\ dlPc' = "waiting"
            /\ UNCHANGED <<dlError, allPc, allError>>
    /\ UNCHANGED <<dlFile, maxRetries, hasCallback, total, loaded, chunks, dlResult>>
    /\ UNCHANGED <<fetches, received, progressCalls, events>>
    /\ UNCHANGED <<fileIdx, completedFiles, downloadedFiles, lastOverall>>
    /\ UNCHANGED <<storeVars, tokVars, trVars>>

\* fetch(url) rejects
FetchRejects == dlPc = "fetching" /\ Catch("transport")

\* `if (!response.ok) throw`
FetchNotOk == dlPc = "fetching" /\ Catch("http")

\* `if (!reader) throw`
FetchNoReader == dlPc = "fetching" /\ Catch("reader")

\* The response arrives with a body: total, loaded, chunks are set up and the
\* first reader.read() is issued
FetchOk ==
    /\ dlPc = "fetching"
    /\ \E contentLength \in ContentLengths : total' = contentLength
    /\ loaded' = 0
    /\ chunks' = <<>>
    /\ received' = <<>>
    /\ progressCalls' = <<>>
    /\ dlPc' = "reading"
    /\ UNCHANGED <<dlFile, maxRetries, hasCallback, attempt, dlOutcome, fetches, lastCause>>
    /\ UNCHANGED <<allFrame, events>>
    /\ UNCHANGED <<storeVars, tokVars, trVars>>

\* `(completedFiles + fileProgress) / totalFiles` with fileProgress =
\* loaded / total, kept as the fraction (completedFiles * total + loaded) / total
\* of a file; onOverallProgress gets 100 / totalFiles times its value
overallProgress(completed, bytes, announced) ==
    <<completed * announced + bytes, announced>>

\* reader.read() delivers a chunk; with `observed` the overall progress value
\* that downloadAllFiles hands to its callback is written down
ChunkRead(observed) ==
    /\ dlPc = "reading"
    /\ Len(chunks) < MaxChunks
    /\ \E value \in Chunks :
        /\ chunks' = Append(chunks, value)
        /\ loaded' = loaded + Len(value)
        /\ received' = received \o value
        /\ IF hasCallback /\ total # 0
           THEN /\ progressCalls' = Append(progressCalls, <<loaded + Len(value), total>>)
                /\ events' = Logged(events, progressEvent(dlFile))
                /\ lastOverall' = IF observed /\ allPc = "running"
                                  THEN overallProgress(completedFiles, loaded + Len(value), total)
                                  ELSE lastOverall
           ELSE UNCHANGED <<progressCalls, events, lastOverall>>
    /\ UNCHANGED <<dlPc, dlFile, maxRetries, hasCallback, attempt, total, dlOutcome>>
    /\ UNCHANGED <<fetches, lastCause, allPc, fileIdx, completedFiles, downloadedFiles, allError>>
    /\ UNCHANGED <<storeVars, tokVars, trVars>>

ReadChunk == ChunkRead(FALSE)

\* reader.read() delivers a chunk to a downloadFile call of downloadAllFiles
\* whose progress values are followed
ReadChunkReported == ChunkRead(TRUE)

\* reader.read() rejects
ReadRejects == dlPc = "reading" /\ Catch("stream")

\* reader.read() reports done: downloadFile returns the joined chunks; inside
\* downloadAllFiles the loop body goes on and the next file's download starts
ReadDone ==
    /\ dlPc = "reading"
    /\ LET buffer == Flatten(chunks) IN
       /\ dlResult' = IF allPc = "running" /\ fileIdx < Len(DownloadFiles)
                      THEN <<>> ELSE <<buffer>>
       /\ IF allPc = "running"
          THEN LET log == Append(events, fileComplete(dlFile, buffer)) IN
               /\ downloadedFiles' = [downloadedFiles EXCEPT ![dlFile] = <<buffer>>]
               /\ completedFiles' = completedFiles + 1
               /\ IF fileIdx < Len(DownloadFiles)
                  THEN /\ fileIdx' = fileIdx + 1
                       /\ dlFile' = DownloadFiles[fileIdx + 1]
                       /\ attempt' = 0
                       /\ lastCause' = "none"
                       /\ LoopHead(DownloadFiles[fileIdx + 1], DefaultMaxRetries, 0, log)
                       /\ UNCHANGED <<allPc, allError>>
                  ELSE /\ allPc' = "returned"
                       /\ dlPc' = "idle"
                       /\ events' = log
                       /\ UNCHANGED <<fileIdx, dlFile, attempt, lastCause, fetches,
                                      dlError, allError>>
          ELSE /\ dlPc' = "returned"
               /\ UNCHANGED <<dlFile, attempt, lastCause, fetches, dlError, allFrame, events>>
    /\ UNCHANGED <<maxRetries, hasCallback, total, loaded, chunks, received, progressCalls>>
    /\ UNCHANGED lastOverall
    /\ UNCHANGED <<storeVars, tokVars, trVars>>

\* The retry delay has passed: back to the head of the while loop
RetryTimer ==
    /\ dlPc = "waiting"
    /\ LoopHead(dlFile, maxRetries, attempt, events)
    /\ UNCHANGED <<dlFrame, dlResult, received, progressCalls, lastCause, allFrame>>
    /\ UNCHANGED <<storeVars, tokVars, trVars>>

FetchInit ==
    /\ dlPc = "idle"
    /\ dlFile = "none"
    /\ maxRetries = DefaultMaxRetries
    /\ hasCallback = FALSE
    /\ attempt = 0
    /\ total = 0 /\ loaded = 0 /\ chunks = <<>>
    /\ dlResult = <<>>
    /\ dlError = NoError
    /\ fetches = 0
    /\ received = <<>>
    /\ progressCalls = <<>>
    /\ lastCause = "none"
    /\ allPc = "idle"
    /\ fileIdx = 0
    /\ completedFiles = 0
    /\ downloadedFiles = [f \in Filenames |-> <<>>]
    /\ allError = NoError
    /\ lastOverall = <<>>
    /\ events = <<>>

FetchNext ==
    \/ \E file \in Filenames, callback \in BOOLEAN, retries \in 0..DefaultMaxRetries :
           downloadFile(file, callback, retries)
    \/ Settle
    \/ downloadAllFiles
    \/ FetchRejects
    \/ FetchNotOk
    \/ FetchNoReader
    \/ FetchOk
    \/ ReadChunk
    \/ ReadRejects
    \/ ReadDone
    \/ RetryTimer

\* The steps of downloadAllFiles calls, their progress values followed
ProgressNext ==
    \/ downloadAllFiles
    \/ FetchRejects
    \/ FetchNotOk
    \/ FetchNoReader
    \/ FetchOk
    \/ ReadChunkReported
    \/ ReadRejects
    \/ ReadDone
    \/ RetryTimer

C5_ExhaustionError ==
    dlPc = "threw" =>
        /\ dlResult = <<>>
        /\ dlError # NoError
        /\ dlError.file = dlFile
        /\ maxRetries > 0 =>
              /\ dlError.kind = "failed"
              /\ lastCause \in Causes
              /\ dlError.cause = lastCause
              /\ dlError.attempts = maxRetries

C5_GaveUpMidStream ==
    /\ dlPc = "threw" /\ maxRetries = DefaultMaxRetries
    /\ lastCause = "stream" /\ received # <<>>

\* Completion callbacks among the first p - 1 events
CompletedBefore(p) == Cardinality({q \in 1..(p - 1) : events[q].ev = "complete"})

\* C6: downloadAllFiles works through the files one after another in list
\* order: every fetch and progress callback belongs to the file that follows
\* the files completed so far, and the completion callback of a file comes once,
\* after its fetches and progress callbacks, with the file's final byte length.
C6_BatchInOrder ==
    allPc # "idle" =>
        /\ \A p \in DOMAIN events :
              /\ CompletedBefore(p) < Len(DownloadFiles)
              /\ events[p].file = DownloadFiles[CompletedBefore(p) + 1]
              /\ events[p].ev = "complete" =>
                    /\ \E q \in 1..(p - 1) :
                          events[q] = fetchEvent(events[p].file)
                    /\ downloadedFiles[events[p].file] # <<>>
                    /\ events[p].n = byteLength(downloadedFiles[events[p].file][1])
        /\ CompletedBefore(Len(events) + 1) = completedFiles
        /\ allPc = "returned" => completedFiles = Len(DownloadFiles)

C6_BatchDone ==
    /\ allPc = "returned"
    /\ \E p \in DOMAIN events : events[p].ev = "progress"
    /\ \E f \in Filenames : byteLength(downloadedFiles[f][1]) > 1

\* C34: downloadAllFiles stops at the first file whose download fails: its
\* error names that file, nothing was fetched or reported for a later file of
\* the list, and the completion callback has fired for the files before the
\* failed one only
C34_BatchAbort ==
    allPc = "threw" =>
        /\ dlPc = "threw"
        /\ allError.kind = "batch"
        /\ allError.file = DownloadFiles[fileIdx]
        /\ completedFiles = fileIdx - 1
        /\ \A p \in DOMAIN events :
              /\ \E i \in 1..fileIdx : events[p].file = DownloadFiles[i]
              /\ events[p].ev = "complete" =>
                    \E i \in 1..(fileIdx - 1) : events[p].file = DownloadFiles[i]
        /\ \A i \in fileIdx..Len(DownloadFiles) :
              \A p \in DOMAIN events :
                  ~(events[p].ev = "complete" /\ events[p].file = DownloadFiles[i])

C34_SecondFileFailed ==
    /\ allPc = "threw" /\ fileIdx = 2
    /\ \E p \in DOMAIN events : events[p] = fetchEvent(DownloadFiles[2])
    /\ \E p \in DOMAIN events :
          events[p].ev = "complete" /\ events[p].file = DownloadFiles[1]

\* C35: within one downloadAllFiles call every overall progress value passed
\* to the progress callback lies within 0..100 and is not lower than the value
\* passed before it, also across a retry after a partial transfer
C35_ProgressMonotone ==
    [][(lastOverall' # lastOverall /\ lastOverall' # <<>>) =>
          /\ 0 <= lastOverall'[1]
          /\ lastOverall'[1] <= Len(DownloadFiles) * lastOverall'[2]
          /\ lastOverall # <<>> =>
                lastOverall[1] * lastOverall'[2] <= lastOverall'[1] * lastOverall[2]]_vars

\* C7 (as claimed): the progress callback has been invoked once for every chunk
\* received in the attempt, also when the response announces no total.
C7_ProgressEveryChunk ==
    (hasCallback /\ dlPc \in {"reading", "returned"}) =>
        Len(progressCalls) = Len(chunks)

(***************************************************************************)
(*        Tokenizer: SimpleSentencePieceProcessor, SMALL100Tokenizer       *)
(*                                                                         *)
(* A string is the sequence of its characters, a token is a string, and a  *)
(* vocabulary is the sequence of its tokens, the token of id i at i + 1.   *)
(***************************************************************************)
SPIECE_UNDERLINE == "▁"
MaxPieceLen == 20
Undefined == -1

\* The keys of this.specialTokens
BosToken == <<"<", "s", ">">>
EosToken == <<"<", "/", "s", ">">>
PadToken == <<"<", "p", "a", "d", ">">>
UnkToken == <<"<", "u", "n", "k", ">">>
specialTokens == {BosToken, EosToken, PadToken, UnkToken}

\* FAIRSEQ_LANGUAGE_CODES["m2m100"], cut to two codes, and a code outside it
LanguageCodes == <<"en", "fr">>
Codes == {"en", "fr", "xx"}
CodeChars(lang) ==
    CASE lang = "en" -> <<"e", "n">>
      [] lang = "fr" -> <<"f", "r">>
      [] OTHER -> <<"x", "x">>

\* vocab.json files
VocabHi ==
    <<PadToken, EosToken, BosToken, UnkToken,
      <<SPIECE_UNDERLINE, "h", "i">>,
      <<SPIECE_UNDERLINE, "t", "h", "e", "r", "e">> >>
VocabChars ==
    <<BosToken, PadToken, EosToken, UnkToken,
      <<SPIECE_UNDERLINE>>, <<"s">>, <<"<">>, <<">">>, <<SPIECE_UNDERLINE, "s">> >>
Vocabularies == {VocabHi, VocabChars}

\* A vocab.json in the convention of TokenizerJsonProcessor, whose pieces
\* start with the space its normalize puts in front: the language tags
VocabTagged ==
    <<PadToken, EosToken, BosToken, UnkToken,
      <<" ", "_", "_", "e", "n", "_", "_">>,
      <<" ", "_", "_", "f", "r", "_", "_">> >>

\* Texts to encode
TextChars == {" ", "s", "<"}
HiThere == <<"h", "i", " ", "t", "h", "e", "r", "e">>
SampleTexts == {HiThere, <<"<", "s", ">">>, <<" ", "s", " ">>, <<"s", " ", "s">>}
Texts == UNION {[1..n -> TextChars] : n \in 0..MaxTextLen} \cup SampleTexts

Min(a, b) == IF a < b THEN a ELSE b
Range(seq) == {seq[i] : i \in DOMAIN seq}

\* this.encoder[token], Undefined when the token is no key
EncoderId(vocab, token) ==
    IF token \in Range(vocab)
    THEN (CHOOSE i \in DOMAIN vocab : vocab[i] = token) - 1
    ELSE Undefined

(* ---- SimpleSentencePieceProcessor ---- *)
\* text.replace(/ /g, "▁") and its reverse in decode
ReplaceAll(text, from, to) ==
    [i \in DOMAIN text |-> IF text[i] = from THEN to ELSE text[i]]

spNormalize(text) == <<SPIECE_UNDERLINE>> \o ReplaceAll(text, " ", SPIECE_UNDERLINE)

RECURSIVE LongestMatch(_, _, _, _)
\* `for (let len = Math.min(text.length - i, 20); len >= 1; len--)`: the
\* length of the first candidate in the vocabulary, 0 when there is none
LongestMatch(vocab, text, i, len) ==
    IF len < 1 THEN 0
    ELSE IF SubSeq(text, i, i + len - 1) \in Range(vocab) THEN len
    ELSE LongestMatch(vocab, text, i, len - 1)

RECURSIVE spTokenizeFrom(_, _, _)
\* The while loop of tokenize from position i (1-based)
spTokenizeFrom(vocab, text, i) ==
    IF i > Len(text) THEN <<>>
    ELSE LET len == LongestMatch(vocab, text, i, Min(Len(text) - i + 1, MaxPieceLen)) IN
         IF len > 0
         THEN <<SubSeq(text, i, i + len - 1)>> \o spTokenizeFrom(vocab, text, i + len)
         ELSE <<IF <<text[i]>> \in Range(vocab) THEN <<text[i]>> ELSE UnkToken>>
              \o spTokenizeFrom(vocab, text, i + 1)

spTokenize(vocab, text) == spTokenizeFrom(vocab, text, 1)

\* encode(text, "str")
spEncode(vocab, text) == spTokenize(vocab, spNormalize(text))

RECURSIVE TrimStart(_)
TrimStart(str) ==
    IF str # <<>> /\ Head(str) = " " THEN TrimStart(Tail(str)) ELSE str

RECURSIVE TrimEnd(_)
TrimEnd(str) ==
    IF str # <<>> /\ str[Len(str)] = " "
    THEN TrimEnd(SubSeq(str, 1, Len(str) - 1)) ELSE str

\* String.prototype.trim
Trim(str) == TrimEnd(TrimStart(str))

\* decode of string pieces that keeps the surrounding whitespace
spDecodeUntrimmed(pieces) == ReplaceAll(Flatten(pieces), SPIECE_UNDERLINE, " ")

\* decode(tokens) for string pieces: join, sentinel to space, trim
spDecode(pieces) == Trim(ReplaceAll(Flatten(pieces), SPIECE_UNDERLINE, " "))

(* ---- SMALL100Tokenizer ---- *)
\* getLangToken(lang): `__${lang}__`
getLangToken(lang) == <<"_", "_">> \o CodeChars(lang) \o <<"_", "_">>

\* The entry, were the language ids to start at the last base id
langIdInFromLast(encoderSize, token) ==
    IF \E i \in DOMAIN LanguageCodes : getLangToken(LanguageCodes[i]) = token
    THEN encoderSize - 2
         + (CHOOSE i \in DOMAIN LanguageCodes : getLangToken(LanguageCodes[i]) = token)
    ELSE Undefined

\* The langTokenToId entry buildLanguageTokenMappings makes: encoderSize + i
\* for the i-th language code (i from 0)
langIdIn(encoderSize, token) ==
    IF \E i \in DOMAIN LanguageCodes : getLangToken(LanguageCodes[i]) = token
    THEN encoderSize - 1
         + (CHOOSE i \in DOMAIN LanguageCodes : getLangToken(LanguageCodes[i]) = token)
    ELSE Undefined

\* this.langTokenToId[token]: empty until buildLanguageTokenMappings has run
langTokenToId(token) ==
    IF langBase # Undefined THEN langIdIn(langBase, token) ELSE Undefined

\* this.idToLangToken[index]
idToLangToken(index) ==
    IF langBase # Undefined /\ index - langBase + 1 \in DOMAIN LanguageCodes
    THEN getLangToken(LanguageCodes[index - langBase + 1])
    ELSE <<>>

getLangId(lang) == langTokenToId(getLangToken(lang))

\* `this.encoder[token] || this.unkTokenId`: an undefined id and the id 0 are
\* both falsy
convertTokenToId(token) ==
    IF langTokenToId(token) # Undefined THEN langTokenToId(token)
    ELSE IF EncoderId(encoder, token) \notin {Undefined, 0}
         THEN EncoderId(encoder, token) ELSE unkTokenId

\* `this.decoder[index] || "<unk>"`
convertIdToToken(index) ==
    IF idToLangToken(index) # <<>> THEN idToLangToken(index)
    ELSE IF index + 1 \in DOMAIN encoder THEN encoder[index + 1] ELSE UnkToken

startsWith(str, pre) == Len(str) >= Len(pre) /\ SubSeq(str, 1, Len(pre)) = pre
endsWith(str, suf) ==
    Len(str) >= Len(suf) /\ SubSeq(str, Len(str) - Len(suf) + 1, Len(str)) = suf

isSpecialToken(token) ==
    \/ token \in specialTokens
    \/ startsWith(token, <<"_", "_">>) /\ endsWith(token, <<"_", "_">>)

RECURSIVE SelectTokens(_, _)
\* .filter((token) => token !== "") after the special tokens became ""
SelectTokens(tokens, skipSpecialTokens) ==
    IF tokens = <<>> THEN <<>>
    ELSE IF Head(tokens) = <<>> \/ (skipSpecialTokens /\ isSpecialToken(Head(tokens)))
         THEN SelectTokens(Tail(tokens), skipSpecialTokens)
         ELSE <<Head(tokens)>> \o SelectTokens(Tail(tokens), skipSpecialTokens)

\* The vocabulary of this.spModel: empty from `new SimpleSentencePieceProcessor()`
\* until loadFromVocab(this.encoder)
spVocab == IF initPc # <<>> THEN <<>> ELSE encoder

\* tokens.map(convertTokenToId), were the pieces without an id left out
tokenIdsKnownOnly(text) ==
    LET tokens == SelectSeq(spEncode(spVocab, text), LAMBDA t : t # UnkToken) IN
    [i \in DOMAIN tokens |-> convertTokenToId(tokens[i])]

\* tokens.map(convertTokenToId) of tokenize and encode
tokenIds(text) ==
    LET tokens == spEncode(spVocab, text) IN
    [i \in DOMAIN tokens |-> convertTokenToId(tokens[i])]

\* The text decode returns
decodedText(ids, skipSpecialTokens) ==
    spDecode(SelectTokens([i \in DOMAIN ids |-> convertIdToToken(ids[i])],
                          skipSpecialTokens))

\* tokenize(text).input_ids: the single row holds the segmented ids
tokenizeRows(text) == <<tokenIds(text)>>

\* buildInputsWithSpecialTokens(tokenIds0)
buildInputs(tokenIds0) ==
    IF prefixTokens = <<>> THEN tokenIds0 \o suffixTokens
    ELSE prefixTokens \o tokenIds0 \o suffixTokens

(* ---- HuggingFaceTokenizer over TokenizerJsonProcessor, the tokenizer    ---- *)
(* ---- loadModel builds from vocab.json; its vocabulary and special ids   ---- *)
(* ---- are held in encoder and the four special-token ids                 ---- *)
\* `15` of preTokenize
MaxTokenLen == 15

\* Some of the keys every object inherits from Object.prototype
ObjectPrototypeKeys ==
    {<<"v", "a", "l", "u", "e", "O", "f">>,
     <<"t", "o", "S", "t", "r", "i", "n", "g">>,
     <<"c", "o", "n", "s", "t", "r", "u", "c", "t", "o", "r">>}

\* The value of an inherited key: a function, not a number
NotANumber == 0 - 2

\* `this.vocab[candidate]` on the object parsed from vocab.json
vocabValue(vocab, candidate) ==
    IF candidate \in Range(vocab) THEN EncoderId(vocab, candidate)
    ELSE IF candidate \in ObjectPrototypeKeys THEN NotANumber
    ELSE Undefined

RECURSIVE preTokenizeMatch(_, _, _, _)
\* `for (let len = Math.min(text.length - i, 15); len >= 1; len--)` with the
\* test `this.vocab[candidate] !== undefined`: the length of the first
\* candidate that passes, 0 when there is none
preTokenizeMatch(vocab, text, i, len) ==
    IF len < 1 THEN 0
    ELSE IF vocabValue(vocab, SubSeq(text, i, i + len - 1)) # Undefined THEN len
    ELSE preTokenizeMatch(vocab, text, i, len - 1)

RECURSIVE preTokenizeFrom(_, _, _)
\* The while loop of preTokenize from position i (1-based)
preTokenizeFrom(vocab, text, i) ==
    IF i > Len(text) THEN <<>>
    ELSE LET len == preTokenizeMatch(vocab, text, i, Min(Len(text) - i + 1, MaxTokenLen)) IN
         IF len > 0
         THEN <<SubSeq(text, i, i + len - 1)>> \o preTokenizeFrom(vocab, text, i + len)
         ELSE <<IF vocabValue(vocab, <<text[i]>>) # Undefined THEN <<text[i]>>
                ELSE UnkToken>>
              \o preTokenizeFrom(vocab, text, i + 1)

\* TokenizerJsonProcessor.normalize: `" " + text.replace(/ /g, " ")`, where
\* the prefix and the replacement are the space itself, not the sentinel
TokenizerJsonProcessor_normalize(text) == <<" ">> \o ReplaceAll(text, " ", " ")

\* TokenizerJsonProcessor.preTokenize(this.normalize(text))
preTokenize(text) == preTokenizeFrom(encoder, TokenizerJsonProcessor_normalize(text), 1)

\* TokenizerJsonProcessor.tokenize: normalize, preTokenize, then
\* `this.vocab[token] || this.specialTokens["<unk>"] || 3`
TokenizerJsonProcessor_tokenize(text) ==
    LET tokens == preTokenize(text) IN
    [i \in DOMAIN tokens |->
        IF vocabValue(encoder, tokens[i]) \notin {Undefined, 0}
        THEN vocabValue(encoder, tokens[i])
        ELSE IF unkTokenId # 0 THEN unkTokenId ELSE 3]

\* HuggingFaceTokenizer.getLangId(langCode): the first id of the encoding of
\* `__${langCode}__`; undefined only without a tokenizer
HuggingFaceTokenizer_getLangId(langCode) ==
    IF ~spLoaded THEN Undefined
    ELSE TokenizerJsonProcessor_tokenize(getLangToken(langCode))[1]

\* TokenizerJsonProcessor.decode: ids without a token and, with
\* skip_special_tokens, the ids held in specialTokens are dropped, the rest is
\* joined, `.replace(/ /g, " ")` puts a space for every space and the ends
\* are trimmed
TokenizerJsonProcessor_decode(ids, skipSpecialTokens) ==
    LET kept == SelectSeq(ids, LAMBDA id :
                    /\ id + 1 \in DOMAIN encoder
                    /\ encoder[id + 1] # <<>>
                    /\ ~(/\ skipSpecialTokens
                         /\ id \in {bosTokenId, eosTokenId, padTokenId, unkTokenId}))
    IN  Trim(ReplaceAll(Flatten([i \in DOMAIN kept |-> encoder[kept[i] + 1]]),
                        " ", " "))
NoTok ==
    [op |-> "none", text |-> <<>>, pieces |-> <<>>, ids |-> <<>>, skip |-> FALSE,
     src |-> <<>>, out |-> <<>>, error |-> "none"]
TokCall(op) == [NoTok EXCEPT !.op = op]
\* "SentencePieceモデルが初期化されていません"
NotInitialised(op) == [NoTok EXCEPT !.op = op, !.error = "not initialised"]

\* A special token id after updateSpecialTokensFromConfig
configuredId(vocab, hasConfig, token, current) ==
    IF hasConfig /\ EncoderId(vocab, token) # Undefined
    THEN EncoderId(vocab, token) ELSE current

\* initializeFromBuffers up to `await this.spModel.load(spModelBuffer)`: the
\* vocabulary and the special ids are set and a new, empty processor is made
InitializeStarts(vocab, hasConfig) ==
    /\ encoder' = vocab
    /\ bosTokenId' = configuredId(vocab, hasConfig, BosToken, bosTokenId)
    /\ eosTokenId' = configuredId(vocab, hasConfig, EosToken, eosTokenId)
    /\ padTokenId' = configuredId(vocab, hasConfig, PadToken, padTokenId)
    /\ unkTokenId' = configuredId(vocab, hasConfig, UnkToken, unkTokenId)
    /\ spLoaded' = TRUE

\* initializeFromBuffers after the await: loadFromVocab,
\* buildLanguageTokenMappings, _tgtLang and setLangSpecialTokens
InitializeEnds(encoderSize, eos, lang) ==
    /\ langBase' = encoderSize
    /\ tgtLang' = lang
    /\ curLangId' = langIdIn(encoderSize, getLangToken(lang))
    /\ prefixTokens' = <<langIdIn(encoderSize, getLangToken(lang))>>
    /\ suffixTokens' = <<eos>>
    /\ initPc' = <<>>

\* initializeFromBuffers(vocabBuffer, spModelBuffer, tokenizerConfigBuffer?, tgtLang)
\* when nothing else runs during its await
Initialize(vocab, hasConfig, lang) ==
    /\ InitializeStarts(vocab, hasConfig)
    /\ InitializeEnds(Len(vocab), configuredId(vocab, hasConfig, EosToken, eosTokenId), lang)

\* loadFromBuffers(vocabBuffer, spModelBuffer, tokenizerConfigBuffer?, tgtLang)
\* is called and runs to its await; one load at a time
loadFromBuffers(vocab, hasConfig, lang) ==
    /\ initPc = <<>>
    /\ InitializeStarts(vocab, hasConfig)
    /\ initPc' = <<lang>>
    /\ tokOut' = TokCall("loadFromBuffers")
    /\ UNCHANGED <<langBase, tokLang>>
    /\ UNCHANGED <<storeVars, fetchVars, trVars>>

\* spModel.load answers and loadFromBuffers runs to its end
loadFromBuffersResumes ==
    /\ initPc # <<>>
    /\ InitializeEnds(Len(encoder), eosTokenId, initPc[1])
    /\ tokOut' = TokCall("loadFromBuffers done")
    /\ UNCHANGED <<spLoaded, encoder, tokIds>>
    /\ UNCHANGED <<storeVars, fetchVars, trVars>>

\* tokenize(text): { input_ids: [tokenIds] }
tokenize(text) ==
    /\ tokOut' = IF ~spLoaded THEN NotInitialised("tokenize")
                 ELSE [TokCall("tokenize") EXCEPT !.text = text,
                                                  !.pieces = spEncode(spVocab, text),
                                                  !.out = tokenizeRows(text)]
    /\ UNCHANGED <<spLoaded, encoder, initPc, langBase, tokIds, tokLang>>
    /\ UNCHANGED <<storeVars, fetchVars, trVars>>

\* encode(text): the ids, not wrapped
encode(text) ==
    /\ tokOut' = IF ~spLoaded THEN NotInitialised("encode")
                 ELSE [TokCall("encode") EXCEPT !.text = text,
                                                !.pieces = spEncode(spVocab, text),
                                                !.out = tokenIds(text)]
    /\ UNCHANGED <<spLoaded, encoder, initPc, langBase, tokIds, tokLang>>
    /\ UNCHANGED <<storeVars, fetchVars, trVars>>

\* "Tokenizerが読み込まれていません"
NotLoaded(op) == [NoTok EXCEPT !.op = op, !.error = "not loaded"]

\* A text that names a key every object inherits
ValueOf == <<"v", "a", "l", "u", "e", "O", "f">>

\* HuggingFaceTokenizer.tokenize(text) of the tokenizer loadModel builds:
\* { input_ids: [this.tokenizer.encode(text)] }
HuggingFaceTokenizer_tokenize(text) ==
    /\ tokOut' = IF ~spLoaded THEN NotLoaded("HuggingFaceTokenizer.tokenize")
                 ELSE [TokCall("HuggingFaceTokenizer.tokenize") EXCEPT
                          !.text = text,
                          !.pieces = preTokenize(text),
                          !.out = <<TokenizerJsonProcessor_tokenize(text)>>]
    /\ UNCHANGED <<spLoaded, encoder, initPc, langBase, tokIds, tokLang>>
    /\ UNCHANGED <<storeVars, fetchVars, trVars>>

\* decode(tokenIds, skipSpecialTokens); `src` holds the text when the ids are
\* what the call before returned for it
decodeCall(ids, skipSpecialTokens, src) ==
    /\ tokOut' = IF ~spLoaded THEN NotInitialised("decode")
                 ELSE [TokCall("decode") EXCEPT !.ids = ids, !.skip = skipSpecialTokens,
                                                !.src = src,
                                                !.out = decodedText(ids, skipSpecialTokens)]
    /\ UNCHANGED <<spLoaded, encoder, initPc, langBase, tokIds, tokLang>>
    /\ UNCHANGED <<storeVars, fetchVars, trVars>>

\* Id sequences to decode that no encode call produced
SampleIds == {<<4, 5>>, <<6, 4, 5, 1>>, <<0, 3, 4>>}

\* HuggingFaceTokenizer.decode(tokenIds, skipSpecialTokens) of the tokenizer
\* loadModel builds
HuggingFaceTokenizer_decode(ids, skipSpecialTokens) ==
    /\ tokOut' = IF ~spLoaded THEN NotLoaded("HuggingFaceTokenizer.decode")
                 ELSE [TokCall("HuggingFaceTokenizer.decode") EXCEPT
                          !.ids = ids, !.skip = skipSpecialTokens,
                          !.out = TokenizerJsonProcessor_decode(ids, skipSpecialTokens)]
    /\ UNCHANGED <<spLoaded, encoder, initPc, langBase, tokIds, tokLang>>
    /\ UNCHANGED <<storeVars, fetchVars, trVars>>

\* HuggingFaceTokenizer.loadFromBuffer of the tokenizer loadModel builds: a
\* new TokenizerJsonProcessor over the vocabulary, whose processConfig takes
\* the four special ids from the vocabulary
HuggingFaceTokenizer_loadFromBuffer(vocab) ==
    /\ Initialize(vocab, TRUE, "en")
    /\ tokOut' = TokCall("HuggingFaceTokenizer.loadFromBuffer")
    /\ UNCHANGED <<storeVars, fetchVars, trVars>>

\* HuggingFaceTokenizer.setDecoderStartTokenId(id): `if (this.tokenizer)
\* this.tokenizer.decoderStartToken = id`, which writes specialTokens["<s>"]
HuggingFaceTokenizer_setDecoderStartTokenId(id) ==
    /\ bosTokenId' = IF spLoaded THEN id ELSE bosTokenId
    /\ tokOut' = TokCall("HuggingFaceTokenizer.setDecoderStartTokenId")
    /\ UNCHANGED <<spLoaded, encoder, initPc, langBase, eosTokenId, padTokenId, unkTokenId, tokLang>>
    /\ UNCHANGED <<storeVars, fetchVars, trVars>>

\* HuggingFaceTokenizer.setEosTokenId(id): `if (this.tokenizer)
\* this.tokenizer.eosToken = id`, which writes specialTokens["</s>"]
HuggingFaceTokenizer_setEosTokenId(id) ==
    /\ eosTokenId' = IF spLoaded THEN id ELSE eosTokenId
    /\ tokOut' = TokCall("HuggingFaceTokenizer.setEosTokenId")
    /\ UNCHANGED <<spLoaded, encoder, initPc, langBase, bosTokenId, padTokenId, unkTokenId, tokLang>>
    /\ UNCHANGED <<storeVars, fetchVars, trVars>>

decode ==
    \E skipSpecialTokens \in BOOLEAN :
        \/ \E ids \in SampleIds : decodeCall(ids, skipSpecialTokens, <<>>)
        \/ /\ tokOut.op = "tokenize" /\ tokOut.error = "none"
           /\ decodeCall(tokOut.out[1], skipSpecialTokens, <<tokOut.text>>)
        \/ /\ tokOut.op = "encode" /\ tokOut.error = "none"
           /\ decodeCall(tokOut.out, skipSpecialTokens, <<tokOut.text>>)

\* buildInputsWithSpecialTokens(tokenIds0)
buildInputsWithSpecialTokens ==
    /\ \E ids \in SampleIds :
           tokOut' = [TokCall("buildInputsWithSpecialTokens") EXCEPT
                          !.ids = ids, !.out = buildInputs(ids)]
    /\ UNCHANGED <<spLoaded, encoder, initPc, langBase, tokIds, tokLang>>
    /\ UNCHANGED <<storeVars, fetchVars, trVars>>

\* setLangSpecialTokens(srcLang), with _tgtLang as the callers leave it
LangSpecialTokens(lang, op) ==
    /\ curLangId' = langTokenToId(getLangToken(lang))
    /\ prefixTokens' = <<langTokenToId(getLangToken(lang))>>
    /\ suffixTokens' = <<eosTokenId>>
    /\ tokOut' = TokCall(op)
    /\ UNCHANGED <<spLoaded, encoder, initPc, langBase, tokIds>>
    /\ UNCHANGED <<storeVars, fetchVars, trVars>>

setLangSpecialTokens(lang) ==
    LangSpecialTokens(lang, "setLangSpecialTokens") /\ UNCHANGED tgtLang

\* set tgtLang(newTgtLang)
setTgtLang(lang) == LangSpecialTokens(lang, "tgtLang") /\ tgtLang' = lang

switchToInputMode ==
    LangSpecialTokens(tgtLang, "switchToInputMode") /\ UNCHANGED tgtLang

switchToTargetMode ==
    /\ prefixTokens' = <<>>
    /\ suffixTokens' = <<eosTokenId>>
    /\ tokOut' = TokCall("switchToTargetMode")
    /\ UNCHANGED <<spLoaded, encoder, initPc, langBase, tokIds, tgtLang, curLangId>>
    /\ UNCHANGED <<storeVars, fetchVars, trVars>>

\* Ids a caller sets: the language ids
SetterIds == {getLangId(LanguageCodes[i]) : i \in DOMAIN LanguageCodes}

setDecoderStartTokenId(id) ==
    /\ bosTokenId' = id
    /\ tokOut' = TokCall("setDecoderStartTokenId")
    /\ UNCHANGED <<spLoaded, encoder, initPc, langBase, eosTokenId, padTokenId, unkTokenId, tokLang>>
    /\ UNCHANGED <<storeVars, fetchVars, trVars>>

setEosTokenId(id) ==
    /\ eosTokenId' = id
    /\ tokOut' = TokCall("setEosTokenId")
    /\ UNCHANGED <<spLoaded, encoder, initPc, langBase, bosTokenId, padTokenId, unkTokenId, tokLang>>
    /\ UNCHANGED <<storeVars, fetchVars, trVars>>

TokInit ==
    /\ spLoaded = FALSE
    /\ encoder = <<>>
    /\ bosTokenId = 0
    /\ eosTokenId = 1
    /\ padTokenId = 2
    /\ unkTokenId = 3
    /\ tgtLang = "en"
    /\ curLangId = 0
    /\ prefixTokens = <<>>
    /\ suffixTokens = <<>>
    /\ initPc = <<>>
    /\ langBase = Undefined
    /\ tokOut = NoTok

\* Loading a vocabulary and working on texts
TokTextNext ==
    \/ \E vocab \in Vocabularies, hasConfig \in BOOLEAN, lang \in Range(LanguageCodes) :
           loadFromBuffers(vocab, hasConfig, lang)
    \/ loadFromBuffersResumes
    \/ \E text \in Texts : tokenize(text)
    \/ \E text \in Texts : encode(text)
    \/ \E text \in Texts \cup {ValueOf} : HuggingFaceTokenizer_tokenize(text)
    \/ \E ids \in SampleIds, skipSpecialTokens \in BOOLEAN :
           HuggingFaceTokenizer_decode(ids, skipSpecialTokens)
    \/ decode
    \/ buildInputsWithSpecialTokens

\* Loading a vocabulary and setting languages, modes and special-token ids
TokLangNext ==
    \/ \E vocab \in Vocabularies, hasConfig \in BOOLEAN, lang \in Range(LanguageCodes) :
           loadFromBuffers(vocab, hasConfig, lang)
    \/ loadFromBuffersResumes
    \/ \E lang \in Codes : setLangSpecialTokens(lang)
    \/ \E lang \in Codes : setTgtLang(lang)
    \/ switchToInputMode
    \/ switchToTargetMode
    \/ \E id \in SetterIds : setDecoderStartTokenId(id)
    \/ \E id \in SetterIds : setEosTokenId(id)

\* The ids a caller may hand to the setters of the tokenizer loadModel builds
SetIds == 0 .. MaxSetId

\* Loading a vocabulary and setting the eos and the decoder-start id of the
\* tokenizer loadModel builds
SpecialIdsNext ==
    \/ \E vocab \in Vocabularies \cup {VocabTagged} : HuggingFaceTokenizer_loadFromBuffer(vocab)
    \/ \E id \in SetIds : HuggingFaceTokenizer_setDecoderStartTokenId(id)
    \/ \E id \in SetIds : HuggingFaceTokenizer_setEosTokenId(id)

\* Loading a vocabulary, setting the two ids to language ids as translate
\* does, and decoding
SkipSpecialNext ==
    \/ \E vocab \in Vocabularies \cup {VocabTagged} : HuggingFaceTokenizer_loadFromBuffer(vocab)
    \/ \E lang \in Codes :
           /\ spLoaded
           /\ HuggingFaceTokenizer_setDecoderStartTokenId(HuggingFaceTokenizer_getLangId(lang))
    \/ \E lang \in Codes :
           /\ spLoaded
           /\ HuggingFaceTokenizer_setEosTokenId(HuggingFaceTokenizer_getLangId(lang))
    \/ \E ids \in SampleIds, skipSpecialTokens \in BOOLEAN :
           HuggingFaceTokenizer_decode(ids, skipSpecialTokens)

TokNext == TokTextNext \/ TokLangNext \/ SpecialIdsNext \/ SkipSpecialNext

(***************************************************************************)
(*                        Claims on the tokenizer                          *)
(***************************************************************************)
\* C8 (as claimed): with a source language set, tokenize returns one row that
\* is the language id of that source, then the ids of the segments, then the
\* eos id.
C8_EncodeFramed ==
    (/\ tokOut.op = "tokenize" /\ tokOut.error = "none"
     /\ \E s \in Range(LanguageCodes) : prefixTokens = <<getLangId(s)>>)
    => tokOut.out = <<prefixTokens \o tokenIds(tokOut.text) \o <<eosTokenId>> >>

\* Every character of the text, a space read as the sentinel, is a token of
\* the segmenter's vocabulary
SingleCharText(text) ==
    \A i \in DOMAIN text :
        <<IF text[i] = " " THEN SPIECE_UNDERLINE ELSE text[i]>> \in Range(spVocab)

\* A string with the sentinel shown as a space
Shown(str) == [i \in DOMAIN str |-> IF str[i] = SPIECE_UNDERLINE THEN " " ELSE str[i]]

\* The latest call decoded, without skipping, what the call before had encoded
RoundTrip == tokOut.op = "decode" /\ tokOut.error = "none" /\ ~tokOut.skip /\ tokOut.src # <<>>

ComeBack(pieces) ==
    [i \in DOMAIN pieces |->
        IF EncoderId(encoder, pieces[i]) = 0 THEN convertIdToToken(unkTokenId)
        ELSE pieces[i]]

EncodedIds == IF tokOut.op = "tokenize" THEN tokOut.out[1] ELSE tokOut.out

\* Position i of `text` lies inside an occurrence of a vocabulary token
Matched(text, i) ==
    \E k \in DOMAIN spVocab, j \in 1..i :
        /\ i <= j + Len(spVocab[k]) - 1
        /\ j + Len(spVocab[k]) - 1 <= Len(text)
        /\ SubSeq(text, j, j + Len(spVocab[k]) - 1) = spVocab[k]

\* The ids of the segments of an already normalised text
SegmentIds(text) ==
    LET tokens == spTokenize(spVocab, text) IN
    [i \in DOMAIN tokens |-> convertTokenToId(tokens[i])]

LanguageIds == [i \in DOMAIN LanguageCodes |-> getLangId(LanguageCodes[i])]

\* With N base tokens the i-th code (from 0) has the id N + i, which is no
\* base id and names the language token
LanguageIdsApart ==
    \A i \in DOMAIN LanguageCodes :
        /\ LanguageIds[i] = Len(encoder) + i - 1
        /\ \A k \in DOMAIN encoder : LanguageIds[i] # k - 1
        /\ \A j \in DOMAIN LanguageCodes : j # i => LanguageIds[j] # LanguageIds[i]
        /\ convertIdToToken(LanguageIds[i]) = getLangToken(LanguageCodes[i])
        /\ convertTokenToId(getLangToken(LanguageCodes[i])) = LanguageIds[i]

\* A load runs to its end in this step
LoadCompletes == initPc # <<>> /\ initPc' = <<>>

C13_NotInitialisedUntilLoaded ==
    tokOut.op \in {"tokenize", "encode", "decode"} =>
        ((tokOut.error = "not initialised" /\ tokOut.out = <<>>) <=> langBase = Undefined)

\* The greatest of a non-empty set of lengths
Longest(lens) == CHOOSE l \in lens : \A m \in lens : m <= l

RECURSIVE GreedyFrom(_, _, _, _, _, _)
\* pieces[k..] is the greedy longest-match segmentation of text[i..] over the
\* vocabulary `words` with candidates of at most maxLen characters: at i the
\* longest candidate in the vocabulary, else one unknown token for one
\* character, and the pieces end exactly where the text ends
GreedyFrom(words, text, pieces, maxLen, i, k) ==
    IF k > Len(pieces) THEN i = Len(text) + 1
    ELSE /\ i <= Len(text)
         /\ LET lens == {l \in 1..Min(maxLen, Len(text) - i + 1) :
                            SubSeq(text, i, i + l - 1) \in words}
            IN  IF lens = {}
                THEN /\ pieces[k] = UnkToken
                     /\ GreedyFrom(words, text, pieces, maxLen, i + 1, k + 1)
                ELSE /\ pieces[k] = SubSeq(text, i, i + Longest(lens) - 1)
                     /\ GreedyFrom(words, text, pieces, maxLen, i + Longest(lens), k + 1)

\* C26: the pieces of a segmentation are the greedy longest match of the
\* normalised text over the vocabulary: at each position the longest
\* substring in the vocabulary, of at most the maximum candidate length, or
\* one unknown token for one character, and the pieces cover the normalised
\* text exactly once.  It holds of SimpleSentencePieceProcessor; the
\* TokenizerJsonProcessor accepts the keys its vocabulary object inherits.
C26_GreedyLongestMatch ==
    /\ (tokOut.op \in {"tokenize", "encode"} /\ tokOut.error = "none")
       => GreedyFrom(Range(spVocab), spNormalize(tokOut.text), tokOut.pieces,
                     MaxPieceLen, 1, 1)
    /\ (tokOut.op = "HuggingFaceTokenizer.tokenize" /\ tokOut.error = "none")
       => GreedyFrom(Range(encoder), TokenizerJsonProcessor_normalize(tokOut.text),
                     tokOut.pieces, MaxTokenLen, 1, 1)

\* The id the vocabulary and the language table give a piece: the language
\* table first, then the vocabulary, the unknown-token id for neither
idOfPiece(piece, langId) ==
    IF langId # Undefined THEN langId
    ELSE IF piece \in Range(encoder) THEN EncoderId(encoder, piece)
    ELSE unkTokenId

\* C27: every piece of a segmentation is mapped to exactly its id in the
\* vocabulary, the id 0 included, a language-tag token to its id in the
\* language table, and only a piece in neither to the unknown-token id
C27_TokenToId ==
    /\ (tokOut.op \in {"tokenize", "encode"} /\ tokOut.error = "none")
       => EncodedIds = [i \in DOMAIN tokOut.pieces |->
                           idOfPiece(tokOut.pieces[i], langTokenToId(tokOut.pieces[i]))]
    /\ (tokOut.op = "HuggingFaceTokenizer.tokenize" /\ tokOut.error = "none")
       => tokOut.out[1] = [i \in DOMAIN tokOut.pieces |->
                              idOfPiece(tokOut.pieces[i], Undefined)]

\* The tokens decode joins: with skipSpecial all but the registered special
\* tokens and the tokens of the language-tag shape, without it all of them
KeptTokens(tokens, skipSpecial) ==
    SelectSeq(tokens, LAMBDA t :
        ~(skipSpecial /\ (\/ t \in {PadToken, BosToken, EosToken, UnkToken}
                          \/ (startsWith(t, <<"_", "_">>) /\ endsWith(t, <<"_", "_">>)))))

\* The text of a sequence of tokens: joined, the sentinel replaced by a space
\* and the ends trimmed
JoinedText(tokens) ==
    Trim([i \in DOMAIN Flatten(tokens) |->
             IF Flatten(tokens)[i] = SPIECE_UNDERLINE THEN " " ELSE Flatten(tokens)[i]])

\* C28: decode(ids, skipSpecial) joins the tokens of the ids in order, the
\* sentinel replaced by a space and the result trimmed; with skipSpecial it
\* first drops the registered special tokens and the tokens of the
\* language-tag shape, without it it drops none.  Decoding [4, 5] over
\* {▁hi:4, ▁there:5} gives "hi there".
C28_DecodeSkipSpecial ==
    /\ (tokOut.op = "decode" /\ tokOut.error = "none")
       => tokOut.out = JoinedText(KeptTokens([i \in DOMAIN tokOut.ids |->
                                                 convertIdToToken(tokOut.ids[i])],
                                             tokOut.skip))
    /\ (tokOut.op = "HuggingFaceTokenizer.decode" /\ tokOut.error = "none")
       => tokOut.out = JoinedText(KeptTokens([i \in DOMAIN tokOut.ids |->
                                                 IF tokOut.ids[i] + 1 \in DOMAIN encoder
                                                 THEN encoder[tokOut.ids[i] + 1] ELSE <<>>],
                                             tokOut.skip))

\* C29: a switch to target mode leaves prefix [] and suffix [eosId], a switch
\* to source mode (setLangSpecialTokens, the tgtLang setter, switchToInputMode)
\* leaves prefix [source language id] and suffix [eosId], and the suffix is
\* still the tokenizer's current eos id after a later setEosTokenId
C29_ModeAffixes ==
    [][/\ tokOut'.op = "switchToTargetMode"
          => prefixTokens' = <<>> /\ suffixTokens' = <<eosTokenId'>>
       /\ tokOut'.op \in {"setLangSpecialTokens", "tgtLang", "switchToInputMode"}
          => /\ prefixTokens' = <<curLangId'>> /\ suffixTokens' = <<eosTokenId'>>
             /\ tokOut'.op # "setLangSpecialTokens"
                => curLangId' = langTokenToId(getLangToken(tgtLang'))
       /\ (tokOut'.op = "setEosTokenId" /\ langBase # Undefined /\ initPc = <<>>)
          => suffixTokens' = <<eosTokenId'>>]_vars

(***************************************************************************)
(*           Translation Engine: TranslationSystem.translate               *)
(*                                                                         *)
(* The tokenizer of the TranslationSystem is the tokenizer state above.    *)
(* loadModel is followed through its awaits; the files the store and the   *)
(* fetcher give it are a choice here.  Logits and probabilities are        *)
(* numbers of the float32 range; here a logit is a whole number, and a     *)
(* probability is represented by its logarithm in whole units relative to  *)
(* the largest of its row, Underflow standing for probability 0.           *)
(***************************************************************************)
DefaultNumBeams == 4
DefaultMaxLength == 200
Underflow == -100

\* The models an InferenceSession is created from.  A session is a function
\* of its feeds: "tokens" prefers a vocabulary token to the language ids,
\* "languages" prefers the language ids in turn, "single" knows one id,
\* "ties" holds two ids equally probable, "empty" returns no logits and
\* "tagged" prefers the ids its vocabulary gives the language tags.
Models == {"tokens", "languages", "single", "ties", "empty", "tagged"}

\* config.json of the model with the vocabulary `vocab`
configOf(vocab) ==
    [num_beams |-> NumBeams, max_length |-> MaxLength,
     vocab_size |-> Len(vocab) + Len(LanguageCodes)]

\* The files of a model: model.onnx, vocab.json and config.json
ModelFiles ==
    {[model |-> "tokens", vocab |-> VocabHi, config |-> configOf(VocabHi)],
     [model |-> "languages", vocab |-> VocabChars, config |-> configOf(VocabChars)],
     [model |-> "single", vocab |-> VocabHi, config |-> configOf(VocabHi)],
     [model |-> "ties", vocab |-> VocabHi, config |-> configOf(VocabHi)],
     [model |-> "empty", vocab |-> VocabHi, config |-> configOf(VocabHi)],
     [model |-> "tagged", vocab |-> VocabTagged, config |-> configOf(VocabTagged)]}

\* requiredFiles of loadModel, in the order it reads them
requiredFiles == <<"model.onnx", "vocab.json", "tokenizer_config.json", "config.json">>

\* The files of the downloader's list, in the order downloadAllFiles fetches
\* them and downloadModel saves them
DownloaderFiles == <<"model.onnx", "vocab.json", "sentencepiece.bpe.model", "config.json",
                     "tokenizer_config.json">>

\* The files of the model named m
PackageOf(m) == CHOOSE p \in ModelFiles : p.model = m

\* The number of ids in a row of the logits the model named m returns
rowSize(m) == IF m = "empty" THEN 0 ELSE PackageOf(m).config.vocab_size

\* `files` of loadModel before anything was read
NoFiles == [f \in Range(requiredFiles) |-> "none"]

\* A store without rows
NoCache == [f \in Range(DownloaderFiles) |-> "none"]

\* What the store may hold when the page is opened: nothing, the model file
\* alone, or every file of a model
CachedAtStart ==
    {NoCache, [NoCache EXCEPT !["model.onnx"] = "tokens"],
     [f \in Range(DownloaderFiles) |-> "tokens"]}

NoLoadError == [kind |-> "none", file |-> "none"]

\* `if (fileBuffer)` read as its negation
notFound(fileBuffer) == fileBuffer = "none"

\* `if (fileBuffer)`: getModel resolved with a buffer, not with null
found(fileBuffer) == fileBuffer # "none"

\* `this.config.num_beams || 4`, `this.config.max_length || 200`
numBeamsOf(cfg) == IF cfg.num_beams = 0 THEN DefaultNumBeams ELSE cfg.num_beams
maxLengthOf(cfg) == IF cfg.max_length = 0 THEN DefaultMaxLength ELSE cfg.max_length

\* Texts to translate
TranslateTexts == {HiThere}

\* The ids a model prefers after the decoder input `tokens`, the most
\* probable first; size - 2 and size - 1 are the language ids and 3 is the id
\* the tokenizer gives a language tag, the end-of-sequence id of translate
preferredIds(model, size, tokens) ==
    CASE model = "tokens" -> <<4, size - 2, size - 1>>
      [] model = "languages" ->
            <<size - 2 + (Len(tokens) % 2), 3, size - 2 + ((Len(tokens) + 1) % 2)>>
      [] model = "ties" -> <<4, 5>>
      [] model = "tagged" -> <<5, 4>>
      [] OTHER -> <<5>>

\* The logits of one position: -k for the k-th preferred id, -1 for each of
\* them in "ties"; the other ids are so far below that their probability is 0
positionLogits(model, size, tokens) ==
    LET preferred == preferredIds(model, size, tokens) IN
    [i \in 1..size |->
        IF \E k \in DOMAIN preferred : preferred[k] = i - 1
        THEN IF model = "ties" THEN 0 - 1
             ELSE 0 - (CHOOSE k \in DOMAIN preferred : preferred[k] = i - 1)
        ELSE 2 * Underflow]

\* output.logits.data of session.run(feeds): one row for each position of
\* decoder_input_ids
runLogits(sess, tokens) ==
    Flatten([p \in 1..Len(tokens) |->
                positionLogits(sess.model, sess.size, SubSeq(tokens, 1, p))])

\* logits.slice((beam.tokens.length - 1) * vocab_size, beam.tokens.length * vocab_size)
nextTokenLogitsOf(logits, length, size) ==
    SubSeq(logits, Min((length - 1) * size, Len(logits)) + 1, Min(length * size, Len(logits)))

\* softmax(array)
softmax(array) ==
    IF array = <<>> THEN <<>>
    ELSE LET maxLogit == CHOOSE m \in Range(array) : \A x \in Range(array) : x <= m IN
         [i \in DOMAIN array |->
             IF array[i] - maxLogit <= Underflow THEN Underflow ELSE array[i] - maxLogit]

RECURSIVE SortByProbability(_)
\* .sort((a, b) => b.probability - a.probability): descending and stable
SortByProbability(entries) ==
    IF entries = <<>> THEN <<>>
    ELSE LET sorted == SortByProbability(SubSeq(entries, 1, Len(entries) - 1))
             e == entries[Len(entries)]
             k == Cardinality({i \in DOMAIN sorted : sorted[i].probability >= e.probability})
         IN  SubSeq(sorted, 1, k) \o <<e>> \o SubSeq(sorted, k + 1, Len(sorted))

\* getTopK(probabilities, k)
getTopK(probabilities, k) ==
    LET entries == [i \in DOMAIN probabilities |->
                       [index |-> i - 1, probability |-> probabilities[i]]]
        sorted == SortByProbability(entries)
    IN  SubSeq(sorted, 1, Min(k, Len(sorted)))

(***************************************************************************)
(* softmax on float values.  A finite logit n stands for n * ln 2, so that *)
(* Math.exp of a difference of logits is a power of two; an exponential    *)
(* and a sum of exponentials n stand for n / ExpScale, and Math.exp        *)
(* returns 0 below 2^-ExpRange.  A quotient is kept as numerator and       *)
(* denominator.  NaN and the infinities behave as in IEEE 754.             *)
(***************************************************************************)
ExpRange == 2
ExpScale == 2 ^ ExpRange
MaxLogit == 3      \* finite logits are -MaxLogit .. MaxLogit

NaN == [kind |-> "NaN", n |-> 0]
Finite(n) == [kind |-> "finite", n |-> n]
PosInfinity == [kind |-> "Infinity", n |-> 1]
NegInfinity == [kind |-> "Infinity", n |-> 0 - 1]

\* The values of a Float32Array of logits
Logits == {Finite(n) : n \in (0 - MaxLogit)..MaxLogit} \cup {NaN, PosInfinity, NegInfinity}

\* The arrays softmax is given
LogitArrays == UNION {[1..n -> Logits] : n \in 1..MaxLogits}

\* isFinite(x)
isFinite(x) == x.kind = "finite"

\* a > b
greater(a, b) ==
    /\ a # NaN /\ b # NaN
    /\ \/ (isFinite(a) /\ isFinite(b) /\ a.n > b.n)
       \/ (a = PosInfinity /\ b # PosInfinity)
       \/ (b = NegInfinity /\ a # NegInfinity)

\* a - b
minus(a, b) ==
    IF a = NaN \/ b = NaN THEN NaN
    ELSE IF isFinite(a) /\ isFinite(b) THEN Finite(a.n - b.n)
    ELSE IF a = b THEN NaN
    ELSE IF ~isFinite(a) THEN a
    ELSE IF b = PosInfinity THEN NegInfinity ELSE PosInfinity

\* Math.exp(x)
exp(x) ==
    IF x = NaN THEN NaN
    ELSE IF x = PosInfinity THEN PosInfinity
    ELSE IF x = NegInfinity \/ x.n < 0 - ExpRange THEN Finite(0)
    ELSE Finite(2 ^ (ExpRange + x.n))

\* a + b, of exponentials: none of them is negative
plus(a, b) ==
    IF a = NaN \/ b = NaN THEN NaN
    ELSE IF ~isFinite(a) \/ ~isFinite(b) THEN PosInfinity
    ELSE Finite(a.n + b.n)

\* a / b, of an exponential and a sum of exponentials
quotient(a, b) ==
    IF a = NaN \/ b = NaN THEN NaN
    ELSE IF ~isFinite(a) THEN IF isFinite(b) THEN PosInfinity ELSE NaN
    ELSE IF ~isFinite(b) THEN [kind |-> "finite", n |-> 0, d |-> 1]
    ELSE IF b.n = 0 THEN IF a.n = 0 THEN NaN ELSE PosInfinity
    ELSE [kind |-> "finite", n |-> a.n, d |-> b.n]

RECURSIVE maxLogitLoop(_, _)
\* maxLogit = array[0], then `if (array[i] > maxLogit) maxLogit = array[i]`
\* up to position `upTo`
maxLogitLoop(array, upTo) ==
    IF upTo = 1 THEN array[1]
    ELSE LET maxLogit == maxLogitLoop(array, upTo - 1)
         IN  IF greater(array[upTo], maxLogit) THEN array[upTo] ELSE maxLogit

\* Math.max(...Array.from(array)): NaN if a value is NaN
MathMax(array) ==
    IF NaN \in Range(array) THEN NaN
    ELSE CHOOSE m \in Range(array) : \A x \in Range(array) : ~greater(x, m)

\* result[i] = Math.exp(array[i] - maxLogit)
exps(array, maxLogit) == [i \in DOMAIN array |-> exp(minus(array[i], maxLogit))]

RECURSIVE sumOf(_, _)
\* sumExps after `upTo` additions
sumOf(result, upTo) ==
    IF upTo = 0 THEN Finite(0) ELSE plus(sumOf(result, upTo - 1), result[upTo])

\* maxLogit of softmax, in the copy of the class that is built
maxLogitOf(array) == IF variant THEN MathMax(array) ELSE maxLogitLoop(array, Len(array))

\* sumExps of softmax
sumExpsOf(array) == sumOf(exps(array, maxLogitOf(array)), Len(array))

\* fallbackValue = 1 / array.length in every position
uniform(array) == [i \in DOMAIN array |-> [kind |-> "finite", n |-> 1, d |-> Len(array)]]

\* softmax(array) on float values; the second copy has neither the test for
\* an empty array nor the fallback
softmaxOfFloats(array) ==
    IF ~variant /\ array = <<>> THEN <<>>
    ELSE LET result == exps(array, maxLogitOf(array))
             sumExps == sumExpsOf(array)
         IN  IF ~variant /\ (sumExps = Finite(0) \/ ~isFinite(sumExps))
             THEN uniform(array)
             ELSE [i \in DOMAIN array |-> quotient(result[i], sumExps)]

RECURSIVE SortByScoreAscending(_)
\* .sort((a, b) => a.score - b.score): ascending and stable
SortByScoreAscending(bs) ==
    IF bs = <<>> THEN <<>>
    ELSE LET sorted == SortByScoreAscending(SubSeq(bs, 1, Len(bs) - 1))
             b == bs[Len(bs)]
             k == Cardinality({i \in DOMAIN sorted : sorted[i].score <= b.score})
         IN  SubSeq(sorted, 1, k) \o <<b>> \o SubSeq(sorted, k + 1, Len(sorted))

RECURSIVE SortByScore(_)
\* .sort((a, b) => b.score - a.score): descending and stable
SortByScore(bs) ==
    IF bs = <<>> THEN <<>>
    ELSE LET sorted == SortByScore(SubSeq(bs, 1, Len(bs) - 1))
             b == bs[Len(bs)]
             k == Cardinality({i \in DOMAIN sorted : sorted[i].score >= b.score})
         IN  SubSeq(sorted, 1, k) \o <<b>> \o SubSeq(sorted, k + 1, Len(sorted))

Completed(bs) == SelectSeq(bs, LAMBDA b : b.completed)
NotCompleted(bs) == SelectSeq(bs, LAMBDA b : ~b.completed)

RECURSIVE Expand(_, _, _, _)
\* `for (const { index: tokenId, probability } of topK)`: the beams formed
\* from `beam`, in the order of topK.  The second copy neither skips a
\* probability of 0, whose logarithm is -Infinity, nor completes a sequence
\* for its length.
Expand(beam, topK, eos, maxLen) ==
    IF topK = <<>> THEN <<>>
    ELSE LET e == Head(topK)
             rest == Expand(beam, Tail(topK), eos, maxLen)
         IN  IF ~variant /\ e.probability = Underflow THEN rest
             ELSE <<[tokens |-> Append(beam.tokens, e.index),
                     score |-> IF beam.score + e.probability <= Underflow THEN Underflow
                               ELSE beam.score + e.probability,
                     completed |-> (e.index = eos
                                    \/ (~variant /\ Len(beam.tokens) + 1 >= maxLen))]>>
                 \o rest

\* The seed of the search
seedBeam(decoderStartTokenId) ==
    [tokens |-> <<decoderStartTokenId>>, score |-> 0, completed |-> FALSE]

\* The calls translate makes on the tokenizer before the search, encoding first
prefixCallsEncodeFirst(srcId, tgtId) ==
    << [call |-> "tokenize", id |-> Undefined],
       [call |-> "getLangId", id |-> srcId],
       [call |-> "setEosTokenId", id |-> srcId],
       [call |-> "getLangId", id |-> tgtId],
       [call |-> "setDecoderStartTokenId", id |-> tgtId] >>

\* The calls translate makes on the tokenizer before the search, in the order
\* of its statements (lines 452, 460, 473, 486, 494)
prefixCalls(srcId, tgtId) ==
    << [call |-> "getLangId", id |-> srcId],
       [call |-> "setEosTokenId", id |-> srcId],
       [call |-> "tokenize", id |-> Undefined],
       [call |-> "getLangId", id |-> tgtId],
       [call |-> "setDecoderStartTokenId", id |-> tgtId] >>

RunCall == [call |-> "run", id |-> Undefined]

DecodeCall == [call |-> "decode", id |-> Undefined]

\* The history keeps one entry for a run of model-runner invocations
Traced(log, e) == IF log # <<>> /\ log[Len(log)] = e THEN log ELSE Append(log, e)

RECURSIVE Exec(_, _, _)
\* The statements of translate from line 452 to line 494, one tokenizer call
\* after the other, up to the first that throws
Exec(todo, text, st) ==
    IF todo = <<>> \/ st.error # "none" THEN st
    ELSE LET c == Head(todo)
             logged == [st EXCEPT !.trace = Append(st.trace, c)]
         IN  Exec(Tail(todo), text,
                CASE c.call = "getLangId" ->
                        IF c.id = Undefined
                        THEN [logged EXCEPT !.error = "language not supported"]
                        ELSE logged
                  [] c.call = "setEosTokenId" -> [logged EXCEPT !.eos = c.id]
                  [] c.call = "tokenize" ->
                        IF ~spLoaded
                        THEN [logged EXCEPT !.error = "not initialised"]
                        ELSE [logged EXCEPT !.ids = TokenizerJsonProcessor_tokenize(text)]
                  [] c.call = "setDecoderStartTokenId" -> [logged EXCEPT !.bos = c.id]
                  [] OTHER -> logged)

\* The selection, were it made among the completed sequences alone
selectionOfCompleted(done, bs) == SortByScore(done)

\* allCandidates sorted; the second copy takes
\* `completedSequences.sort(...)[0]?.tokens || beams.sort(...)[0]?.tokens`
selection(done, bs) ==
    IF variant THEN (IF done # <<>> THEN SortByScore(done) ELSE SortByScore(bs))
    ELSE SortByScore(done \o NotCompleted(bs))

\* The second copy sorts completedSequences where it selects, and beams when
\* nothing has completed, in place; the first copy sorts a new array
sortedAtSelection(sequences, selecting) ==
    IF variant /\ selecting THEN SortByScore(sequences) ELSE sequences

\* The loop, were it left as soon as a sequence has completed
loopUntilFirstCompleted(s, bs, done, maxLen) == s < maxLen /\ done = <<>>

\* `step < maxLength` and no `break` of the loop head is taken; the second
\* copy breaks on `beams.length === 0`
loopGoesOn(s, bs, done, maxLen) ==
    /\ s < maxLen
    /\ IF variant THEN bs # <<>>
       ELSE /\ ~(\A i \in DOMAIN bs : bs[i].completed)
            /\ ~(bs = <<>> /\ done = <<>> /\ s > 0)

\* The head of `for (let step = 0; step < maxLength; step++)` at step s with
\* the beams bs and the completed sequences done: the first session.run of
\* the step or, when the loop ends, the selection of the best sequence and its
\* decoding.
SearchLoop(s, bs, done, log, maxLen) ==
    /\ step' = s
    /\ beams' = sortedAtSelection(bs, ~loopGoesOn(s, bs, done, maxLen) /\ done = <<>>)
    /\ completedSequences' = sortedAtSelection(done, ~loopGoesOn(s, bs, done, maxLen))
    /\ nextBeamsAccumulator' = <<>>
    /\ IF loopGoesOn(s, bs, done, maxLen)
       THEN /\ trPc' = "run"
            /\ beamIdx' = 1
            /\ running' = session
            /\ trace' = Traced(log, RunCall)
            /\ UNCHANGED <<bestSequence, trResult, trError>>
       ELSE LET allCandidates == selection(done, bs) IN
            /\ beamIdx' = 0
            /\ running' = <<>>
            /\ IF allCandidates = <<>>
               THEN /\ trPc' = "threw"
                    /\ trError' = "no result"
                    /\ trace' = log
                    /\ UNCHANGED <<bestSequence, trResult>>
               ELSE IF ~spLoaded
               THEN /\ trPc' = "threw"
                    /\ trError' = "not initialised"
                    /\ bestSequence' = <<allCandidates[1].tokens>>
                    /\ trace' = Append(log, DecodeCall)
                    /\ UNCHANGED trResult
               ELSE /\ trPc' = "returned"
                    /\ bestSequence' = <<allCandidates[1].tokens>>
                    /\ trResult' = <<TokenizerJsonProcessor_decode(allCandidates[1].tokens, TRUE)>>
                    /\ trace' = Append(log, DecodeCall)
                    /\ UNCHANGED trError

\* translate(text, sourceLang, targetLang), up to its first await
translate(text, src, tgt) ==
    /\ trPc = "idle"
    /\ trText' = text
    /\ sourceLang' = src
    /\ targetLang' = tgt
    /\ IF ~isLoaded \/ session = <<>> \/ tokenizer = "null" \/ config = <<>>
       THEN /\ trPc' = "threw"
            /\ trError' = "not loaded"
            /\ UNCHANGED <<srcLangId, tgtLangId, inputIds, numBeams, maxLength, trSearch,
                           bestSequence, trResult, trace>>
            /\ UNCHANGED <<bosTokenId, eosTokenId>>
       ELSE LET st == Exec(prefixCalls(HuggingFaceTokenizer_getLangId(src),
                                       HuggingFaceTokenizer_getLangId(tgt)), text,
                           [eos |-> eosTokenId, bos |-> bosTokenId, ids |-> <<>>,
                            trace |-> <<>>, error |-> "none"])
            IN  /\ eosTokenId' = st.eos
                /\ bosTokenId' = st.bos
                /\ srcLangId' = HuggingFaceTokenizer_getLangId(src)
                /\ tgtLangId' = IF Cardinality({i \in DOMAIN st.trace :
                                                   st.trace[i].call = "getLangId"}) = 2
                                 THEN HuggingFaceTokenizer_getLangId(tgt) ELSE Undefined
                /\ inputIds' = st.ids
                /\ IF st.error # "none"
                   THEN /\ trPc' = "threw"
                        /\ trError' = st.error
                        /\ trace' = st.trace
                        /\ UNCHANGED <<numBeams, maxLength, trSearch, bestSequence, trResult>>
                   ELSE /\ numBeams' = numBeamsOf(config[1])
                        /\ maxLength' = maxLengthOf(config[1])
                        /\ SearchLoop(0, <<seedBeam(st.bos)>>, <<>>, st.trace,
                                      maxLengthOf(config[1]))
    /\ UNCHANGED trSystem
    /\ UNCHANGED <<spLoaded, encoder, initPc, langBase, padTokenId, unkTokenId, tokLang, tokOut>>
    /\ UNCHANGED <<storeVars, fetchVars>>

\* Another translate(text, sourceLang, targetLang) call is made while this
\* one is suspended at session.run, and runs to its own first await: it sets
\* the eos id and the decoder-start id of the shared tokenizer.  Its search
\* only reads the tokenizer and is left out.
translateInterleaved(text, src, tgt) ==
    /\ trPc = "run"
    /\ isLoaded /\ session # <<>> /\ tokenizer # "null" /\ config # <<>>
    /\ LET st == Exec(prefixCalls(HuggingFaceTokenizer_getLangId(src),
                                  HuggingFaceTokenizer_getLangId(tgt)), text,
                      [eos |-> eosTokenId, bos |-> bosTokenId, ids |-> <<>>,
                       trace |-> <<>>, error |-> "none"])
       IN  /\ eosTokenId' = st.eos
           /\ bosTokenId' = st.bos
    /\ UNCHANGED trVars
    /\ UNCHANGED <<spLoaded, encoder, initPc, langBase, padTokenId, unkTokenId, tokLang, tokOut>>
    /\ UNCHANGED <<storeVars, fetchVars>>

\* HuggingFaceTokenizer.eosToken: `this.tokenizer.eosToken || 1`
eosToken == IF eosTokenId = 0 THEN 1 ELSE eosTokenId

\* HuggingFaceTokenizer.decoderStartToken: `this.tokenizer.decoderStartToken || 2`
decoderStartToken == IF bosTokenId = 0 THEN 2 ELSE bosTokenId

\* nextTokenLogits: the row of the last position in the answer of session.run
\* for beams[beamIdx]
nextTokenLogits ==
    nextTokenLogitsOf(runLogits(running[1], beams[beamIdx].tokens),
                      Len(beams[beamIdx].tokens), config[1].vocab_size)

\* The candidates formed from beams[beamIdx] with the answer of session.run:
\* the logits of the last position, softmax, the top numBeams ids
beamCandidates ==
    LET beam == beams[beamIdx]
        probabilities == softmax(nextTokenLogits)
    IN  Expand(beam, getTopK(probabilities, numBeams), eosToken, maxLength)

\* The completed sequences, were only the numBeams best of them kept
pushCompletedKeepingBest(done, cands) ==
    LET all == SortByScore(done \o Completed(cands))
    IN  SubSeq(all, 1, Min(numBeams, Len(all)))

\* completedSequences.push(...) of the completed candidates, in their order
pushCompleted(done, cands) == done \o Completed(cands)

\* session.run(feeds) answers for beams[beamIdx]: its candidates are formed;
\* after the last beam of the step the beams are pruned and the loop goes on
\* When clearCache has set this.config to null during the await,
\* `this.config.vocab_size` throws a TypeError, which the catch block rethrows
RunAnswer ==
    /\ trPc = "run"
    /\ IF config = <<>>
       THEN /\ trPc' = "threw"
            /\ trError' = "TypeError"
            /\ running' = <<>>
            /\ UNCHANGED <<step, beams, beamIdx, nextBeamsAccumulator, completedSequences,
                           bestSequence, trResult, trace>>
       ELSE
       LET cands == beamCandidates
           done == pushCompleted(completedSequences, cands)
           acc == nextBeamsAccumulator \o NotCompleted(cands)
           kept == NotCompleted(SortByScore(acc))
       IN  IF beamIdx < Len(beams)
           THEN /\ beamIdx' = beamIdx + 1
                /\ running' = session
                /\ completedSequences' = done
                /\ nextBeamsAccumulator' = acc
                /\ trace' = Traced(trace, RunCall)
                /\ UNCHANGED <<trPc, step, beams, bestSequence, trResult, trError>>
           ELSE SearchLoop(step + 1, SubSeq(kept, 1, Min(numBeams, Len(kept))), done,
                           trace, maxLength)
    /\ UNCHANGED <<trText, sourceLang, targetLang, srcLangId, tgtLangId, inputIds, numBeams,
                   maxLength>>
    /\ UNCHANGED trSystem
    /\ UNCHANGED <<storeVars, fetchVars, tokVars>>

\* session.run(feeds) rejects: the catch block rethrows
RunRejects ==
    /\ trPc = "run"
    /\ trPc' = "threw"
    /\ trError' = "runner"
    /\ running' = <<>>
    /\ UNCHANGED <<trText, sourceLang, targetLang, srcLangId, tgtLangId, inputIds, numBeams,
                   maxLength, step, beams, beamIdx, nextBeamsAccumulator,
                   completedSequences, bestSequence, trResult, trace>>
    /\ UNCHANGED trSystem
    /\ UNCHANGED <<storeVars, fetchVars, tokVars>>

\* The caller takes the outcome of translate
TranslateSettles ==
    /\ trPc \in {"returned", "threw"}
    /\ trPc' = "idle"
    /\ trText' = <<>> /\ sourceLang' = "none" /\ targetLang' = "none"
    /\ srcLangId' = Undefined /\ tgtLangId' = Undefined
    /\ inputIds' = <<>>
    /\ numBeams' = 0 /\ maxLength' = 0 /\ step' = 0
    /\ beams' = <<>> /\ beamIdx' = 0 /\ running' = <<>>
    /\ nextBeamsAccumulator' = <<>> /\ completedSequences' = <<>>
    /\ bestSequence' = <<>> /\ trResult' = <<>> /\ trError' = "none" /\ trace' = <<>>
    /\ UNCHANGED trSystem
    /\ UNCHANGED <<storeVars, fetchVars, tokVars>>

\* loadModel(onProgress) up to its first await, `await this.initStorage()`
loadModel ==
    /\ lmPc = "idle"
    /\ loads < MaxLoads
    /\ loads' = loads + 1
    /\ lmCall' = "loadModel"
    /\ lmPc' = "init"
    /\ lmIdx' = 0 /\ lmFiles' = NoFiles /\ dlFiles' = "none"
    /\ lmError' = NoLoadError /\ lmFetched' = FALSE /\ lmSaved' = {}
    /\ UNCHANGED <<variant, dalFrame, smVars, trLoaded, cached, ccPc, trFrame>>
    /\ UNCHANGED <<storeVars, fetchVars, tokVars>>

\* downloadModel(onProgress, onFileProgress, onFileComplete) called on its
\* own, up to its first await
downloadModel ==
    /\ lmPc = "idle"
    /\ loads < MaxLoads
    /\ loads' = loads + 1
    /\ lmCall' = "downloadModel"
    /\ lmPc' = "dlInit"
    /\ lmIdx' = 0 /\ lmFiles' = NoFiles /\ dlFiles' = "none"
    /\ lmError' = NoLoadError /\ lmFetched' = FALSE /\ lmSaved' = {}
    /\ UNCHANGED <<variant, dalFrame, smVars, trLoaded, cached, ccPc, trFrame>>
    /\ UNCHANGED <<storeVars, fetchVars, tokVars>>

\* initStorage has resolved in loadModel: the first required file is asked for
StorageReady ==
    /\ lmPc = "init"
    /\ lmPc' = "check"
    /\ lmIdx' = 1
    /\ UNCHANGED <<lmCall, lmFiles, dlFiles, lmError, lmFetched, lmSaved, loads>>
    /\ UNCHANGED <<variant, dalFrame, smVars, trLoaded, cached, ccPc, trFrame>>
    /\ UNCHANGED <<storeVars, fetchVars, tokVars>>

\* One file of a loop over requiredFiles has been read: it is kept and the
\* loop goes on, to `next` after the last file; a file the store lacks ends
\* the loop at `missing`, with an error of the kind `thrown` if it throws one
ReadRequired(next, missing, thrown) ==
    LET fileName == requiredFiles[lmIdx]
        fileBuffer == cached[fileName]
    IN  IF found(fileBuffer)
        THEN /\ lmFiles' = [lmFiles EXCEPT ![fileName] = fileBuffer]
             /\ IF lmIdx < Len(requiredFiles)
                THEN lmIdx' = lmIdx + 1 /\ UNCHANGED lmPc
                ELSE lmIdx' = 0 /\ lmPc' = next
             /\ UNCHANGED lmError
        ELSE /\ lmIdx' = 0
             /\ lmPc' = missing
             /\ lmError' = IF thrown = "none" THEN lmError
                           ELSE [kind |-> thrown, file |-> fileName]
             /\ UNCHANGED lmFiles

\* getModel has resolved in the first loop of loadModel: a missing file ends
\* the loop and downloadModel is called, which awaits initStorage
FileChecked ==
    /\ lmPc = "check"
    /\ ReadRequired("session", "dlInit", "none")
    /\ UNCHANGED <<lmCall, dlFiles, lmFetched, lmSaved, loads>>
    /\ UNCHANGED <<variant, dalFrame, smVars, trLoaded, cached, ccPc, trFrame>>
    /\ UNCHANGED <<storeVars, fetchVars, tokVars>>

\* initStorage has resolved in downloadModel: downloader.downloadAllFiles is
\* called and awaited
DownloadStarts ==
    /\ lmPc = "dlInit"
    /\ lmPc' = "download"
    /\ lmFetched' = TRUE
    /\ UNCHANGED <<lmCall, lmIdx, lmFiles, dlFiles, lmError, lmSaved, loads>>
    /\ UNCHANGED <<variant, dalFrame, smVars, trLoaded, cached, ccPc, trFrame>>
    /\ UNCHANGED <<storeVars, fetchVars, tokVars>>

\* downloadAllFiles has resolved with the files of the model the server
\* holds: the first of them is handed to saveModel
DownloadResolves(model) ==
    /\ lmPc = "download"
    /\ dlFiles' = model
    /\ lmPc' = "save"
    /\ lmIdx' = 1
    /\ UNCHANGED <<lmCall, lmFiles, lmError, lmFetched, lmSaved, loads>>
    /\ UNCHANGED <<variant, dalFrame, smVars, trLoaded, cached, ccPc, trFrame>>
    /\ UNCHANGED <<storeVars, fetchVars, tokVars>>

\* A downloadModel that saves each file as it arrives: the first file is in
\* the store when the download of a later one fails.
DownloadRejectsHavingSaved(file) ==
    /\ lmPc = "download"
    /\ cached' = [cached EXCEPT ![DownloaderFiles[1]] = "single"]
    /\ lmSaved' = {DownloaderFiles[1]}
    /\ lmError' = [kind |-> "download", file |-> file]
    /\ lmPc' = "idle"
    /\ UNCHANGED <<lmCall, lmIdx, lmFiles, dlFiles, lmFetched, loads>>
    /\ UNCHANGED <<variant, dalFrame, smVars, trLoaded, ccPc, trFrame>>
    /\ UNCHANGED <<storeVars, fetchVars, tokVars>>

\* downloadAllFiles has rejected, naming the file whose download failed:
\* downloadModel rethrows, and so does loadModel when it made the call
DownloadRejects(file) ==
    /\ lmPc = "download"
    /\ lmError' = [kind |-> "download", file |-> file]
    /\ lmPc' = "idle"
    /\ UNCHANGED <<lmCall, lmIdx, lmFiles, dlFiles, lmFetched, lmSaved, loads>>
    /\ UNCHANGED <<variant, dalFrame, smVars, trLoaded, cached, ccPc, trFrame>>
    /\ UNCHANGED <<storeVars, fetchVars, tokVars>>

\* saveModel has written one downloaded file and resolved: the next file is
\* saved; after the last one downloadModel resolves, and loadModel reads the
\* required files again
FileSaved ==
    /\ lmPc = "save"
    /\ cached' = [cached EXCEPT ![DownloaderFiles[lmIdx]] = dlFiles]
    /\ lmSaved' = lmSaved \cup {DownloaderFiles[lmIdx]}
    /\ IF lmIdx < Len(DownloaderFiles)
       THEN lmIdx' = lmIdx + 1 /\ UNCHANGED lmPc
       ELSE IF lmCall = "downloadModel"
            THEN lmIdx' = 0 /\ lmPc' = "idle"
            ELSE lmIdx' = 1 /\ lmPc' = "reread"
    /\ UNCHANGED <<lmCall, lmFiles, dlFiles, lmError, lmFetched, loads>>
    /\ UNCHANGED <<variant, dalFrame, smVars, trLoaded, ccPc, trFrame>>
    /\ UNCHANGED <<storeVars, fetchVars, tokVars>>

\* getModel has resolved in the loop after the download: a file that is
\* still missing makes loadModel throw an error that names it
FileReread ==
    /\ lmPc = "reread"
    /\ ReadRequired("session", "idle", "missing")
    /\ UNCHANGED <<lmCall, dlFiles, lmFetched, lmSaved, loads>>
    /\ UNCHANGED <<variant, dalFrame, smVars, trLoaded, cached, ccPc, trFrame>>
    /\ UNCHANGED <<storeVars, fetchVars, tokVars>>

\* InferenceSession.create answers: the session is kept, a new tokenizer is
\* constructed and its load is awaited
SessionCreated ==
    /\ lmPc = "session"
    /\ session' = <<[model |-> lmFiles["model.onnx"],
                     size |-> rowSize(lmFiles["model.onnx"])]>>
    /\ tokenizer' = "object"
    /\ spLoaded' = FALSE
    /\ encoder' = <<>>
    /\ bosTokenId' = 0 /\ eosTokenId' = 1 /\ padTokenId' = 2 /\ unkTokenId' = 3
    /\ tgtLang' = "en" /\ curLangId' = 0
    /\ prefixTokens' = <<>> /\ suffixTokens' = <<>>
    /\ initPc' = <<>> /\ langBase' = Undefined
    /\ tokOut' = NoTok
    /\ lmPc' = "tokenizer"
    /\ UNCHANGED <<lmCall, lmIdx, lmFiles, dlFiles, lmError, lmFetched, lmSaved, loads>>
    /\ UNCHANGED <<variant, dalFrame, smVars, isLoaded, config, cached, ccPc, trFrame>>
    /\ UNCHANGED <<storeVars, fetchVars>>

\* The tokenizer has loaded its vocabulary: config.json is parsed and the
\* model is marked as loaded
TokenizerLoaded ==
    /\ lmPc = "tokenizer"
    /\ Initialize(PackageOf(lmFiles["vocab.json"]).vocab, TRUE, "en")
    /\ UNCHANGED tokOut
    /\ config' = <<PackageOf(lmFiles["config.json"]).config>>
    /\ isLoaded' = TRUE
    /\ lmPc' = "idle"
    /\ UNCHANGED <<lmCall, lmIdx, lmFiles, dlFiles, lmError, lmFetched, lmSaved, loads>>
    /\ UNCHANGED <<variant, dalFrame, smVars, session, tokenizer, cached, ccPc, trFrame>>
    /\ UNCHANGED <<storeVars, fetchVars>>

\* An await on the store, on InferenceSession.create or on the tokenizer
\* rejects: the call rethrows
LoadModelThrows ==
    /\ lmPc \in {"init", "check", "dlInit", "save", "reread", "session", "tokenizer"}
    /\ lmError' = [kind |-> "await", file |-> "none"]
    /\ lmPc' = "idle"
    /\ UNCHANGED <<lmCall, lmIdx, lmFiles, dlFiles, lmFetched, lmSaved, loads>>
    /\ UNCHANGED <<variant, dalFrame, smVars, trLoaded, cached, ccPc, trFrame>>
    /\ UNCHANGED <<storeVars, fetchVars, tokVars>>

\* downloadAndLoadModel(...) up to its first await, `await this.initStorage()`
downloadAndLoadModel ==
    /\ lmPc = "idle"
    /\ loads < MaxLoads
    /\ loads' = loads + 1
    /\ lmCall' = "downloadAndLoadModel"
    /\ lmPc' = "dalInit"
    /\ lmIdx' = 0 /\ lmFiles' = NoFiles /\ dlFiles' = "none"
    /\ lmError' = NoLoadError /\ lmFetched' = FALSE /\ lmSaved' = {}
    /\ filesToDownload' = {}
    /\ cachedAtCall' = cached
    /\ UNCHANGED <<pendingSaves, lostSaves>>
    /\ UNCHANGED <<variant, smVars, trLoaded, cached, ccPc, trFrame>>
    /\ UNCHANGED <<storeVars, fetchVars, tokVars>>

\* initStorage has resolved in downloadAndLoadModel: the first required file
\* is asked for
CheckStarts ==
    /\ lmPc = "dalInit"
    /\ lmPc' = "dalCheck"
    /\ lmIdx' = 1
    /\ UNCHANGED <<lmCall, lmFiles, dlFiles, lmError, lmFetched, lmSaved, loads>>
    /\ UNCHANGED <<variant, dalFrame, smVars, trLoaded, cached, ccPc, trFrame>>
    /\ UNCHANGED <<storeVars, fetchVars, tokVars>>

\* getModel has resolved in the cache check of downloadAndLoadModel.  The
\* first copy of the class notes a missing file in filesToDownload and goes
\* on; the second copy leaves the loop at the first missing file.  With
\* every file found loadModel is called, which awaits initStorage; otherwise
\* downloader.downloadAllFiles is called and awaited.
CacheChecked ==
    /\ lmPc = "dalCheck"
    /\ LET fileName == requiredFiles[lmIdx]
           missing == notFound(cached[fileName])
           toDownload == IF missing THEN filesToDownload \cup {fileName}
                         ELSE filesToDownload
       IN  /\ filesToDownload' = toDownload
           /\ IF ~(variant /\ missing) /\ lmIdx < Len(requiredFiles)
              THEN lmIdx' = lmIdx + 1 /\ UNCHANGED <<lmPc, lmFetched>>
              ELSE /\ lmIdx' = 0
                   /\ lmPc' = IF toDownload = {} THEN "init" ELSE "dalDownload"
                   /\ lmFetched' = (toDownload # {})
    /\ UNCHANGED <<lmCall, lmFiles, dlFiles, lmError, lmSaved, loads, cachedAtCall>>
    /\ UNCHANGED <<pendingSaves, lostSaves>>
    /\ UNCHANGED <<variant, smVars, trLoaded, cached, ccPc, trFrame>>
    /\ UNCHANGED <<storeVars, fetchVars, tokVars>>

\* downloadAllFiles has resolved in downloadAndLoadModel with the files of
\* the model the server holds: the loop over its entries starts
AllFilesDownloaded(model) ==
    /\ lmPc = "dalDownload"
    /\ dlFiles' = model
    /\ lmPc' = "dalSave"
    /\ lmIdx' = 1
    /\ UNCHANGED <<lmCall, lmFiles, lmError, lmFetched, lmSaved, loads>>
    /\ UNCHANGED <<variant, dalFrame, smVars, trLoaded, cached, ccPc, trFrame>>
    /\ UNCHANGED <<storeVars, fetchVars, tokVars>>

\* downloadAllFiles has rejected in downloadAndLoadModel: the call rethrows
AllFilesRejected(file) ==
    /\ lmPc = "dalDownload"
    /\ lmError' = [kind |-> "download", file |-> file]
    /\ lmPc' = "idle"
    /\ UNCHANGED <<lmCall, lmIdx, lmFiles, dlFiles, lmFetched, lmSaved, loads>>
    /\ UNCHANGED <<variant, dalFrame, smVars, trLoaded, cached, ccPc, trFrame>>
    /\ UNCHANGED <<storeVars, fetchVars, tokVars>>

\* `if (filesToDownload.includes(name))` of the first copy's save loop; the
\* second copy saves every entry
savesEntry(name) == variant \/ name \in filesToDownload

\* One entry of `files` in the save loop of downloadAndLoadModel: saveModel
\* writes it, or the first copy passes over a file that was cached; after the
\* last entry loadModel is called, which awaits initStorage
EntrySaved ==
    /\ lmPc = "dalSave"
    /\ LET name == DownloaderFiles[lmIdx] IN
       IF savesEntry(name)
       THEN /\ cached' = [cached EXCEPT ![name] = dlFiles]
            /\ lmSaved' = lmSaved \cup {name}
       ELSE UNCHANGED <<cached, lmSaved>>
    /\ IF lmIdx < Len(DownloaderFiles)
       THEN lmIdx' = lmIdx + 1 /\ UNCHANGED lmPc
       ELSE lmIdx' = 0 /\ lmPc' = "init"
    /\ UNCHANGED <<lmCall, lmFiles, dlFiles, lmError, lmFetched, loads>>
    /\ UNCHANGED <<variant, dalFrame, smVars, trLoaded, ccPc, trFrame>>
    /\ UNCHANGED <<storeVars, fetchVars, tokVars>>

\* An await on the store rejects in downloadAndLoadModel: the call rethrows
DownloadAndLoadThrows ==
    /\ lmPc \in {"dalInit", "dalCheck", "dalSave"}
    /\ lmError' = [kind |-> "await", file |-> "none"]
    /\ lmPc' = "idle"
    /\ UNCHANGED <<lmCall, lmIdx, lmFiles, dlFiles, lmFetched, lmSaved, loads>>
    /\ UNCHANGED <<variant, dalFrame, smVars, trLoaded, cached, ccPc, trFrame>>
    /\ UNCHANGED <<storeVars, fetchVars, tokVars>>

\* requiredFiles of the downloadAndLoadModel that saves from its per-file
\* completion callback
requiredFilesOnComplete == <<"model.onnx", "vocab.json", "sentencepiece.bpe.model", "config.json">>

\* downloadAndLoadModel(...) of the class that saves each file from the
\* completion callback it hands to downloadAllFiles, up to its first await
downloadAndLoadModelOnComplete ==
    /\ lmPc = "idle"
    /\ loads < MaxLoads
    /\ loads' = loads + 1
    /\ lmCall' = "downloadAndLoadModel, saving on completion"
    /\ lmPc' = "ocInit"
    /\ lmIdx' = 0 /\ lmFiles' = NoFiles /\ dlFiles' = "none"
    /\ lmError' = NoLoadError /\ lmFetched' = FALSE /\ lmSaved' = {}
    /\ pendingSaves' = {} /\ lostSaves' = {}
    /\ UNCHANGED <<filesToDownload, cachedAtCall>>
    /\ UNCHANGED <<variant, smVars, trLoaded, cached, ccPc, trFrame>>
    /\ UNCHANGED <<storeVars, fetchVars, tokVars>>

\* initStorage has resolved: the first required file is looked up
LookupStarts ==
    /\ lmPc = "ocInit"
    /\ lmPc' = "ocCheck"
    /\ lmIdx' = 1
    /\ UNCHANGED <<lmCall, lmFiles, dlFiles, lmError, lmFetched, lmSaved, loads>>
    /\ UNCHANGED <<variant, dalFrame, smVars, trLoaded, cached, ccPc, trFrame>>
    /\ UNCHANGED <<storeVars, fetchVars, tokVars>>

\* `files` is complete: config.json is parsed, the tokenizer is constructed
\* and its loadVocab is awaited.  The fields of that tokenizer are outside
\* this part of the model: the call is followed for what it stores.
FilesProcessed(files) ==
    /\ config' = <<PackageOf(files["config.json"]).config>>
    /\ tokenizer' = "object"
    /\ lmPc' = "ocVocab"

\* hasModel, getModelInfo and getModel have resolved for one required file:
\* a cached file is kept in cachedFiles, a missing one ends the loop and
\* downloadAllFiles is called with the saving callback
FileLookedUp ==
    /\ lmPc = "ocCheck"
    /\ LET filename == requiredFilesOnComplete[lmIdx]
           cachedFiles == IF filename \in DOMAIN lmFiles
                          THEN [lmFiles EXCEPT ![filename] = cached[filename]]
                          ELSE lmFiles
       IN  IF found(cached[filename])
           THEN /\ lmFiles' = cachedFiles
                /\ IF lmIdx < Len(requiredFilesOnComplete)
                   THEN /\ lmIdx' = lmIdx + 1
                        /\ UNCHANGED <<lmPc, config, tokenizer>>
                   ELSE /\ lmIdx' = 0
                        /\ FilesProcessed(cachedFiles)
                /\ UNCHANGED lmFetched
           ELSE /\ lmIdx' = 1
                /\ lmPc' = "ocDownload"
                /\ lmFetched' = TRUE
                /\ UNCHANGED <<lmFiles, config, tokenizer>>
    /\ UNCHANGED <<lmCall, dlFiles, lmError, lmSaved, loads>>
    /\ UNCHANGED <<variant, dalFrame, smVars, isLoaded, session, cached, ccPc, trFrame>>
    /\ UNCHANGED <<storeVars, fetchVars, tokVars>>

\* downloadAllFiles has fetched its next file and called onFileComplete: the
\* callback calls saveModel, whose promise nobody awaits, and the loop goes
\* on; after the last file downloadAllFiles resolves with all files
FileCompleted(model) ==
    /\ lmPc = "ocDownload"
    /\ lmIdx = 1 \/ model = dlFiles
    /\ dlFiles' = model
    /\ pendingSaves' = pendingSaves \cup {DownloaderFiles[lmIdx]}
    /\ IF lmIdx < Len(DownloaderFiles)
       THEN /\ lmIdx' = lmIdx + 1
            /\ UNCHANGED <<lmPc, lmFiles, config, tokenizer>>
       ELSE /\ lmIdx' = 0
            /\ lmFiles' = [f \in Range(requiredFiles) |-> model]
            /\ FilesProcessed([f \in Range(requiredFiles) |-> model])
    /\ UNCHANGED <<lmCall, lmError, lmFetched, lmSaved, loads>>
    /\ UNCHANGED <<filesToDownload, cachedAtCall, lostSaves>>
    /\ UNCHANGED <<variant, smVars, isLoaded, session, cached, ccPc, trFrame>>
    /\ UNCHANGED <<storeVars, fetchVars, tokVars>>

\* downloadAllFiles has rejected, naming the file whose download failed: the
\* catch block reports and rethrows
FileFailed(file) ==
    /\ lmPc = "ocDownload"
    /\ file = DownloaderFiles[lmIdx]
    /\ lmError' = [kind |-> "download", file |-> file]
    /\ lmPc' = "idle"
    /\ UNCHANGED <<lmCall, lmIdx, lmFiles, dlFiles, lmFetched, lmSaved, loads>>
    /\ UNCHANGED <<variant, dalFrame, smVars, trLoaded, cached, ccPc, trFrame>>
    /\ UNCHANGED <<storeVars, fetchVars, tokVars>>

\* The put of a saveModel made by the callback has succeeded
SaveResolves(file) ==
    /\ file \in pendingSaves
    /\ pendingSaves' = pendingSaves \ {file}
    /\ cached' = [cached EXCEPT ![file] = dlFiles]
    /\ lmSaved' = lmSaved \cup {file}
    /\ UNCHANGED <<lmCall, lmPc, lmIdx, lmFiles, dlFiles, lmError, lmFetched, loads>>
    /\ UNCHANGED <<filesToDownload, cachedAtCall, lostSaves>>
    /\ UNCHANGED <<variant, smVars, trLoaded, ccPc, trFrame>>
    /\ UNCHANGED <<storeVars, fetchVars, tokVars>>

\* The put of a saveModel made by the callback has failed: the promise of the
\* callback rejects, and nothing holds that promise
SaveRejects(file) ==
    /\ file \in pendingSaves
    /\ pendingSaves' = pendingSaves \ {file}
    /\ lostSaves' = lostSaves \cup {file}
    /\ UNCHANGED <<filesToDownload, cachedAtCall>>
    /\ UNCHANGED <<variant, smVars, trLoaded, cached, ccPc, lmFrame, trFrame>>
    /\ UNCHANGED <<storeVars, fetchVars, tokVars>>

\* loadVocab has resolved: loadSentencePiece is awaited
VocabLoaded ==
    /\ lmPc = "ocVocab"
    /\ lmPc' = "ocSentencePiece"
    /\ UNCHANGED <<lmCall, lmIdx, lmFiles, dlFiles, lmError, lmFetched, lmSaved, loads>>
    /\ UNCHANGED <<variant, dalFrame, smVars, trLoaded, cached, ccPc, trFrame>>
    /\ UNCHANGED <<storeVars, fetchVars, tokVars>>

\* loadSentencePiece has resolved: InferenceSession.create is awaited
SentencePieceLoaded ==
    /\ lmPc = "ocSentencePiece"
    /\ lmPc' = "ocSession"
    /\ UNCHANGED <<lmCall, lmIdx, lmFiles, dlFiles, lmError, lmFetched, lmSaved, loads>>
    /\ UNCHANGED <<variant, dalFrame, smVars, trLoaded, cached, ccPc, trFrame>>
    /\ UNCHANGED <<storeVars, fetchVars, tokVars>>

\* InferenceSession.create answers: the session is kept, the model is marked
\* as loaded and the call resolves
SessionReady ==
    /\ lmPc = "ocSession"
    /\ session' = <<[model |-> lmFiles["model.onnx"],
                     size |-> rowSize(lmFiles["model.onnx"])]>>
    /\ isLoaded' = TRUE
    /\ lmPc' = "idle"
    /\ UNCHANGED <<lmCall, lmIdx, lmFiles, dlFiles, lmError, lmFetched, lmSaved, loads>>
    /\ UNCHANGED <<variant, dalFrame, smVars, tokenizer, config, cached, ccPc, trFrame>>
    /\ UNCHANGED <<storeVars, fetchVars, tokVars>>

\* An await of the call itself rejects: the catch block reports and rethrows
OnCompleteThrows ==
    /\ lmPc \in {"ocInit", "ocCheck", "ocVocab", "ocSentencePiece", "ocSession"}
    /\ lmError' = [kind |-> "await", file |-> "none"]
    /\ lmPc' = "idle"
    /\ UNCHANGED <<lmCall, lmIdx, lmFiles, dlFiles, lmFetched, lmSaved, loads>>
    /\ UNCHANGED <<variant, dalFrame, smVars, trLoaded, cached, ccPc, trFrame>>
    /\ UNCHANGED <<storeVars, fetchVars, tokVars>>

\* clearCache() up to its first await, `await this.initStorage()`
clearCache ==
    /\ ccPc = "idle"
    /\ ccPc' = "init"
    /\ UNCHANGED <<variant, dalFrame, smVars, trLoaded, cached, lmFrame, trFrame>>
    /\ UNCHANGED <<storeVars, fetchVars, tokVars>>

\* initStorage has resolved in clearCache: storage.clearAll is called
ClearAllStarts ==
    /\ ccPc = "init"
    /\ ccPc' = "clearAll"
    /\ UNCHANGED <<variant, dalFrame, smVars, trLoaded, cached, lmFrame, trFrame>>
    /\ UNCHANGED <<storeVars, fetchVars, tokVars>>

\* clearAll has emptied the store and resolved: the loaded state is reset
CacheCleared ==
    /\ ccPc = "clearAll"
    /\ cached' = NoCache
    /\ isLoaded' = FALSE
    /\ session' = <<>>
    /\ tokenizer' = "null"
    /\ config' = <<>>
    /\ ccPc' = "idle"
    /\ UNCHANGED <<variant, dalFrame, smVars, lmFrame, trFrame>>
    /\ UNCHANGED <<storeVars, fetchVars, tokVars>>

\* softmax(array), on an array of float values
softmaxCall(array) ==
    /\ smArray' = array
    /\ smResult' = softmaxOfFloats(array)
    /\ UNCHANGED <<variant, dalFrame, trLoaded, cached, ccPc, lmFrame, trFrame>>
    /\ UNCHANGED <<storeVars, fetchVars, tokVars>>

(***************************************************************************)
(* Claims about translate                                                  *)
(***************************************************************************)
\* Positions of the trace at which `call` was made
CallsOf(call) == {i \in DOMAIN trace : trace[i].call = call}

C14_UnsupportedLanguageFails ==
    (/\ trPc # "idle" /\ trError # "not loaded"
     /\ (sourceLang \notin Range(LanguageCodes) \/ targetLang \notin Range(LanguageCodes)))
    => /\ trPc = "threw"
       /\ trError = "language not supported"
       /\ CallsOf("run") = {}

\* The last session.run of a decoding step answers in this step of the model
StepEnds == trPc = "run" /\ step' = step + 1

\* The non-completed candidates formed in the decoding step that now ends
StepCandidates == nextBeamsAccumulator \o NotCompleted(beamCandidates)

\* C15: when a decoding step ends, the active set holds at most numBeams
\* beams, none completed, in descending order of score; they are candidates of
\* that step, as many as numBeams allows, and no discarded non-completed
\* candidate of the step has a higher score than a kept one.
C15_BeamPruning ==
    [][StepEnds =>
        /\ Len(beams') = Min(numBeams, Len(StepCandidates))
        /\ \A i \in DOMAIN beams' :
              /\ ~beams'[i].completed
              /\ beams'[i] \in Range(StepCandidates)
              /\ \A j \in DOMAIN beams' : i < j => beams'[i].score >= beams'[j].score
        /\ \A k \in DOMAIN StepCandidates :
              StepCandidates[k] \notin Range(beams') =>
                  \A i \in DOMAIN beams' : beams'[i].score >= StepCandidates[k].score]_vars

\* Two prunings done and nothing completed: each of the two beams of step 1
\* gave two candidates, the two kept ones come from the same beam, and the
\* second of them ties with a discarded one
C15_PrunedFromFour ==
    /\ trPc = "run" /\ step = 2 /\ numBeams = 2
    /\ session # <<>> /\ running[1].model = "tokens"
    /\ completedSequences = <<>>
    /\ Len(beams) = 2
    /\ beams[1].tokens[2] = beams[2].tokens[2]
    /\ beams[2].score = -1

\* The decoding loop is left in this step of the model, not by an exception
\* of the model runner
LoopExits == trPc = "run" /\ trPc' \in {"returned", "threw"} /\ trError' # "runner"

\* C16: the decoding loop goes on only while fewer than maxLength steps are
\* done and the active set is not empty; it is left after at most maxLength
\* steps, and after fewer only with an empty active set.
C16_LoopEnds ==
    [][/\ trPc' = "run" => (step' < maxLength' /\ beams' # <<>>)
       /\ LoopExits => /\ step' <= maxLength
                       /\ step' < maxLength => beams' = <<>>]_vars

\* A search that ended before maxLength steps, after several steps, because
\* every beam had completed
C16_EndedEarly ==
    /\ trPc = "returned"
    /\ step >= 2 /\ step < maxLength
    /\ beams = <<>>
    /\ Len(completedSequences) >= 2

\* C17: the sequence translate decodes is one of the completed sequences and
\* the still-active beams at loop exit, none of them has a higher score, and
\* none found earlier (the completed ones in the order they completed, then
\* the active beams) has the same score.
C17_BestSequence ==
    (trPc = "returned" \/ bestSequence # <<>>) =>
        LET allCandidates == completedSequences \o NotCompleted(beams) IN
        /\ bestSequence # <<>>
        /\ \E k \in DOMAIN allCandidates :
              /\ allCandidates[k].tokens = bestSequence[1]
              /\ \A j \in DOMAIN allCandidates :
                    /\ allCandidates[j].score <= allCandidates[k].score
                    /\ j < k => allCandidates[j].score < allCandidates[k].score

\* The last token of a sequence
LastToken(tokens) == tokens[Len(tokens)]

\* Claim C21: a beam formed from a candidate is completed exactly when its
\* last token is the eos id or its length has reached maxLength; so while the
\* search runs no active beam formed by it ends with the eos id, no active
\* beam has maxLength tokens or more, and every completed sequence ends with
\* the eos id or has at least maxLength tokens.
C21_CompletionRule ==
    trPc = "run" =>
        /\ \A b \in Range(beams) \cup Range(nextBeamsAccumulator) :
              /\ step > 0 => LastToken(b.tokens) # eosToken
              /\ Len(b.tokens) < maxLength
        /\ \A b \in Range(completedSequences) :
              LastToken(b.tokens) = eosToken \/ Len(b.tokens) >= maxLength

\* The number of positions of a sequence that hold x
CountOf(seq, x) == Cardinality({i \in DOMAIN seq : seq[i] = x})

\* Claim C22: from the start of a search to its end every completed sequence
\* stays in the completed set with its tokens and its score, and the set may
\* hold more than numBeams sequences.
C22_CompletedRetained ==
    [][trPc = "run" =>
        \A b \in Range(completedSequences) :
            CountOf(completedSequences', b) >= CountOf(completedSequences, b)]_vars

\* More sequences have completed than the beam width, and the search goes on
C22_MoreThanBeams ==
    /\ trPc = "run"
    /\ Len(completedSequences) > numBeams

\* Claim C23: translate throws the no-result error only with the completed
\* set and the active set both empty at the end of the loop, and only when
\* the model runner has returned an empty row of logits: a search over rows
\* of at least one id never ends without a result.
C23_NoResultOnlyIfEmpty ==
    [][(trPc = "run" /\ trError' = "no result") =>
        /\ completedSequences' = <<>>
        /\ NotCompleted(beams') = <<>>
        /\ nextTokenLogits = <<>>]_vars

\* The seed beam was run on a model that returned no logits, and translate
\* threw the no-result error
C23_NoResultThrown ==
    /\ trPc = "threw" /\ trError = "no result"
    /\ step = 1 /\ beams = <<>> /\ completedSequences = <<>>

\* Claim C24: the search starts from the one beam [decoderStartTokenId] with
\* score 0, not completed, and no completed sequence; at the start of step s
\* every active beam has s + 1 tokens, the first of them decoderStartTokenId,
\* and no active, candidate or completed sequence has more than maxLength
\* tokens.
C24_StartAndLength ==
    /\ trPc = "run" =>
        /\ step = 0 => (beams = <<seedBeam(tgtLangId)>> /\ completedSequences = <<>>)
        /\ \A b \in Range(beams) :
              Len(b.tokens) = step + 1 /\ b.tokens[1] = tgtLangId
    /\ \A b \in Range(beams) \cup Range(nextBeamsAccumulator) \cup Range(completedSequences) :
          Len(b.tokens) <= maxLength

\* Claim C25: the candidates formed from an active beam are those of the
\* 2 * numBeams most probable next tokens, in that order, without the tokens
\* of negligible probability; none of probability 0 is scored.
C25_Oversampling ==
    trPc = "run" =>
        LET topK == SelectSeq(getTopK(softmax(nextTokenLogits), 2 * numBeams),
                              LAMBDA e : e.probability > Underflow)
        IN  [i \in DOMAIN beamCandidates |-> LastToken(beamCandidates[i].tokens)]
              = [i \in DOMAIN topK |-> topK[i].index]

\* C30: translate returns only after its loop has ended with an empty active
\* set, and the sequence it decodes is one of the completed sequences: it
\* ends with the eos id or has exactly maxLength tokens
C30_CompletedResult ==
    trPc = "returned" =>
        /\ beams = <<>>
        /\ \E b \in Range(completedSequences) :
              /\ b.tokens = bestSequence[1]
              /\ LastToken(b.tokens) = eosToken \/ Len(b.tokens) = maxLength

\* The errors translate throws by itself, and the rejection of the runner
DescriptiveErrors ==
    {"not loaded", "language not supported", "not initialised", "no result", "runner"}

\* C31: a translate call, also one that was suspended at session.run while
\* clearCache ran, never dereferences a null tokenizer, session or config: it
\* returns a text or fails with one of its descriptive errors
C31_NoNullDereference ==
    /\ trPc = "threw" => trError \in DescriptiveErrors
    /\ trPc = "returned" => trResult # <<>>

\* C32: while a translate call runs its search, also when another translate
\* call has started meanwhile, the eos id it tests completion against is the
\* one it set itself, its source language id, and every sequence of its
\* search starts with its own decoder-start id, its target language id
C32_OwnSpecialIds ==
    trPc = "run" =>
        /\ eosToken = srcLangId
        /\ \A b \in Range(beams) \cup Range(nextBeamsAccumulator)
                  \cup Range(completedSequences) : b.tokens[1] = tgtLangId

\* C33: whenever isModelLoaded() is true the session, the tokenizer and the
\* config are non-null and the tokenizer has loaded its vocabulary
C33_LoadedInvariant ==
    isLoaded => /\ session # <<>>
                /\ tokenizer # "null"
                /\ config # <<>>
                /\ spLoaded /\ encoder # <<>>

(***************************************************************************)
(* Claims about loadModel and downloadModel                                *)
(***************************************************************************)
\* The running call has passed the await it was at
CallMovesOn == lmPc' # lmPc \/ lmIdx' # lmIdx

\* Claim C18: loadModel calls downloadModel only on reading a required file
\* the store lacks, and with every required file stored it goes on to create
\* the session without a fetch; when the download has completed and a
\* required file read again is still missing, loadModel throws an error that
\* names that file; a loadModel call whose download failed or that found a
\* file still missing has ended and has not set isLoaded.
C18_FetchIfAbsent ==
    [][/\ (lmPc = "check" /\ lmPc' = "dlInit")
            => cached[requiredFiles[lmIdx]] = "none"
       /\ (/\ lmPc = "check" /\ lmPc' \notin {"check", "idle"}
           /\ \A i \in DOMAIN requiredFiles : cached[requiredFiles[i]] # "none")
            => (lmPc' = "session" /\ ~lmFetched')
       /\ (/\ lmPc = "reread" /\ CallMovesOn /\ lmError'.kind # "await"
           /\ cached[requiredFiles[lmIdx]] = "none")
            => /\ lmError' = [kind |-> "missing", file |-> requiredFiles[lmIdx]]
               /\ lmPc' = "idle"
               /\ lmFetched
       /\ (lmCall = "loadModel" /\ lmPc \in {"download", "reread"} /\ lmPc' = "idle")
            => (lmError'.kind # "none" /\ isLoaded' = isLoaded)
       /\ lmError'.kind # "none" => lmPc' = "idle"]_vars

\* A loadModel call has saved every downloaded file and then found a
\* required file missing
C18_StillAbsent ==
    /\ lmCall = "loadModel"
    /\ lmError.kind = "missing"
    /\ lmSaved = Range(DownloaderFiles)

\* Claim C19: when downloadAllFiles rejects during downloadModel, the call
\* ends with the downloader's error, which names the file, and has saved
\* nothing; from the call of downloadModel to that point no step but
\* clearCache's changes the store or isLoaded, session, tokenizer and config.
C19_NoPartialEffects ==
    [][/\ (lmPc = "download" /\ lmPc' = "idle")
            => /\ lmError'.kind = "download"
               /\ lmError'.file \in Range(DownloaderFiles)
               /\ lmSaved' = {}
       /\ (lmPc \in {"dlInit", "download"} /\ ccPc # "clearAll")
            => (cached' = cached /\ trLoaded' = trLoaded)]_vars

\* A downloadModel call has failed on a download while the store holds files
C19_DownloadFailed ==
    /\ lmCall = "downloadModel"
    /\ lmError.kind = "download"
    /\ cached # NoCache
    /\ lmSaved = {}

\* C36: when a downloadAndLoadModel call has ended, it has saved only files
\* the store lacked when it was called: no file the store held then has been
\* written again, and each is held as it was
C36_CachedNotOverwritten ==
    (lmCall = "downloadAndLoadModel" /\ lmPc = "idle") =>
        \A f \in Range(DownloaderFiles) :
            found(cachedAtCall[f]) => (f \notin lmSaved /\ cached[f] = cachedAtCall[f])

\* C37: when the downloadAndLoadModel that saves from the per-file completion
\* callback has resolved after a download, every downloaded file is in the
\* store: no save is still under way and no save has failed
C37_SavedBeforeResolved ==
    (/\ lmCall = "downloadAndLoadModel, saving on completion"
     /\ lmPc = "idle"
     /\ lmError = NoLoadError
     /\ lmFetched) =>
        /\ pendingSaves = {}
        /\ lostSaves = {}
        /\ lmSaved = Range(DownloaderFiles)

\* C38: on a loaded tokenizer, for every id from 0 on, the eosToken getter
\* returns id right after setEosTokenId(id) and the decoderStartToken getter
\* returns id right after setDecoderStartTokenId(id), and neither setter
\* changes what the other getter returns
C38_SetGetRoundTrip ==
    [][\A id \in SetIds :
          /\ (spLoaded /\ HuggingFaceTokenizer_setEosTokenId(id)) =>
                (eosToken' = id /\ decoderStartToken' = decoderStartToken)
          /\ (spLoaded /\ HuggingFaceTokenizer_setDecoderStartTokenId(id)) =>
                (decoderStartToken' = id /\ eosToken' = eosToken)]_vars

\* The vocabulary ids of <pad>, </s>, <s> and <unk>
baseSpecialIds ==
    {EncoderId(encoder, token) : token \in {PadToken, EosToken, BosToken, UnkToken}}
        \ {Undefined}

\* C39: with the eos id and the decoder-start id set to language ids, a
\* decode that skips special tokens still drops the vocabulary ids of <pad>,
\* </s>, <s> and <unk>: its text is the text of the ids without them
C39_SkipStable ==
    (/\ tokOut.op = "HuggingFaceTokenizer.decode"
     /\ tokOut.error = "none"
     /\ tokOut.skip
     /\ \E src \in Codes, tgt \in Codes :
           /\ eosTokenId = HuggingFaceTokenizer_getLangId(src)
           /\ bosTokenId = HuggingFaceTokenizer_getLangId(tgt)) =>
        tokOut.out = TokenizerJsonProcessor_decode(
                        SelectSeq(tokOut.ids, LAMBDA id : id \notin baseSpecialIds), TRUE)

(***************************************************************************)
(* Claims about softmax                                                    *)
(***************************************************************************)
\* The probabilities are finite and add up to 1
SumsToOne(probabilities) ==
    /\ \A i \in DOMAIN probabilities : isFinite(probabilities[i])
    /\ \E d \in 1..(ExpScale * MaxLogits + ExpScale) :
        /\ \A i \in DOMAIN probabilities :
               probabilities[i].n = 0 \/ probabilities[i].d = d
        /\ sumOf([i \in DOMAIN probabilities |-> Finite(probabilities[i].n)],
                 Len(probabilities)) = Finite(d)

\* Claim C20: for every non-empty array of logits softmax returns finite
\* probabilities that add up to 1, and when the sum of the exponentials is
\* zero or not finite it returns the uniform distribution.
C20_SoftmaxStable ==
    smArray # <<>> =>
        /\ SumsToOne(smResult)
        /\ (sumExpsOf(smArray) = Finite(0) \/ ~isFinite(sumExpsOf(smArray)))
             => smResult = uniform(smArray)

TranslateInit ==
    /\ variant \in BOOLEAN
    /\ isLoaded = FALSE
    /\ session = <<>>
    /\ tokenizer = "null"
    /\ config = <<>>
    /\ cached \in CachedAtStart
    /\ ccPc = "idle"
    /\ lmCall = "none"
    /\ lmPc = "idle"
    /\ lmIdx = 0
    /\ lmFiles = NoFiles
    /\ dlFiles = "none"
    /\ lmError = NoLoadError
    /\ lmFetched = FALSE
    /\ lmSaved = {}
    /\ loads = 0
    /\ filesToDownload = {}
    /\ cachedAtCall = NoCache
    /\ pendingSaves = {}
    /\ lostSaves = {}
    /\ smArray = <<>>
    /\ smResult = <<>>
    /\ trPc = "idle"
    /\ trText = <<>> /\ sourceLang = "none" /\ targetLang = "none"
    /\ srcLangId = Undefined /\ tgtLangId = Undefined
    /\ inputIds = <<>>
    /\ numBeams = 0 /\ maxLength = 0 /\ step = 0
    /\ beams = <<>> /\ beamIdx = 0 /\ running = <<>>
    /\ nextBeamsAccumulator = <<>> /\ completedSequences = <<>>
    /\ bestSequence = <<>> /\ trResult = <<>> /\ trError = "none" /\ trace = <<>>

\* The steps of a loadModel call
LoadModelNext ==
    \/ loadModel
    \/ StorageReady
    \/ FileChecked
    \/ DownloadStarts
    \/ \E model \in Models : DownloadResolves(model)
    \/ \E file \in Range(DownloaderFiles) : DownloadRejects(file)
    \/ FileSaved
    \/ FileReread
    \/ SessionCreated
    \/ TokenizerLoaded
    \/ LoadModelThrows

\* The steps of a downloadAndLoadModel call, those of the loadModel call it
\* ends with included
DownloadAndLoadNext ==
    \/ downloadAndLoadModel
    \/ CheckStarts
    \/ CacheChecked
    \/ \E model \in Models : AllFilesDownloaded(model)
    \/ \E file \in Range(DownloaderFiles) : AllFilesRejected(file)
    \/ EntrySaved
    \/ DownloadAndLoadThrows
    \/ LoadModelNext

\* The steps of the downloadAndLoadModel that saves on completion, and the
\* settling of the saves it started
OnCompleteNext ==
    \/ downloadAndLoadModelOnComplete
    \/ LookupStarts
    \/ FileLookedUp
    \/ \E model \in Models : FileCompleted(model)
    \/ \E file \in Range(DownloaderFiles) : FileFailed(file)
    \/ \E file \in Range(DownloaderFiles) : SaveResolves(file)
    \/ \E file \in Range(DownloaderFiles) : SaveRejects(file)
    \/ VocabLoaded
    \/ SentencePieceLoaded
    \/ SessionReady
    \/ OnCompleteThrows

LoadNext ==
    \/ LoadModelNext
    \/ downloadModel
    \/ clearCache
    \/ ClearAllStarts
    \/ CacheCleared

TranslateNext ==
    \/ LoadModelNext
    \/ \E text \in TranslateTexts, src \in Codes, tgt \in Codes : translate(text, src, tgt)
    \/ RunAnswer
    \/ RunRejects
    \/ TranslateSettles

\* translate calls and clearCache calls on one TranslationSystem
RaceNext ==
    \/ TranslateNext
    \/ clearCache
    \/ ClearAllStarts
    \/ CacheCleared

\* translate calls that interleave on one TranslationSystem
InterleavedNext ==
    \/ TranslateNext
    \/ \E text \in TranslateTexts, src \in Codes, tgt \in Codes :
           translateInterleaved(text, src, tgt)

SoftmaxNext == \E array \in LogitArrays : softmaxCall(array)

Init == StoreInit /\ FetchInit /\ TokInit /\ TranslateInit

Next ==
    \/ StoreNext \/ FetchNext \/ TokNext \/ LoadNext \/ TranslateNext \/ SoftmaxNext
    \/ RaceNext \/ InterleavedNext \/ DownloadAndLoadNext
    \/ OnCompleteNext \/ ProgressNext

Spec == Init /\ [][Next]_vars

SpecStore == Init /\ [][StoreNext]_vars

SpecFetch == Init /\ [][FetchNext]_vars

SpecProgress == Init /\ [][ProgressNext]_vars

SpecTok == Init /\ [][TokTextNext]_vars

SpecLang == Init /\ [][TokLangNext]_vars

SpecSpecialIds == Init /\ [][SpecialIdsNext]_vars

SpecSkipSpecial == Init /\ [][SkipSpecialNext]_vars

SpecSoftmax == Init /\ [][SoftmaxNext]_vars

SpecLoad == Init /\ [][LoadNext]_vars

SpecTranslate == Init /\ [][TranslateNext]_vars

SpecDownloadAndLoad == Init /\ [][DownloadAndLoadNext]_vars
SpecOnComplete == Init /\ [][OnCompleteNext]_vars
SpecRace == Init /\ [][RaceNext]_vars

SpecInterleaved == Init /\ [][InterleavedNext]_vars

====
